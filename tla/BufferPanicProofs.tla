------------------------- MODULE BufferPanicProofs -------------------------
(***************************************************************************)
(* Proof that the buffer cache never hands the driver a transfer without a *)
(* vnode, of no length, or longer than the buffer's memory.                *)
(*                                                                         *)
(* It needs a hypothesis on the clients.  brealloc of a delayed block to a *)
(* larger size clears B_DONE and keeps B_DELWRI, so that bread of more     *)
(* fragments than a dirty buffer maps reads into it; when that read fails, *)
(* brelse drops the vnode of a header that is still to be written.         *)
(*                                                                         *)
(* The second theorem, at the end, is that allocbuf's moves of memory      *)
(* between headers lose and duplicate nothing; it needs only IInv.         *)
(***************************************************************************)
EXTENDS BufferCacheProofs, FiniteSetTheorems

BlockCalls == {"bread", "breada", "readahead", "getblk", "realloc"}
ReadCalls == {"bread", "breada", "readahead"}

(* Calls that let a dirty buffer grow without reading it.                  *)
GrowCalls == {"getblk", "realloc"}

(* No block is read at a larger size than it is read or written at         *)
(* elsewhere.                                                              *)
ReadsNoMore ==
    \A w \in ReadReqs \cup RaReqs \cup WriteReqs, r \in ReadReqs \cup RaReqs :
       r.vp = w.vp /\ r.blkno = w.blkno => r.size <= w.size

(* The hypothesis: that, or the driver reports no errors.                  *)
ReadsWithin == IOErrors => ReadsNoMore

(* No client reads more of the block (v, k) than the n fragments.          *)
Covers(v, k, n) ==
    ReadsNoMore => \A r \in ReadReqs \cup RaReqs :
                      r.vp = v /\ r.blkno = k => r.size <= n

BlockReq(r) == r.vp \in Vnode /\ Covers(r.vp, r.blkno, r.size)

(* What p's arguments are, by the call it is in and where it is.           *)
CallBy(p) ==
    /\ call[p] \in ReadCalls => req[p] \in ReadReqs
    /\ call[p] \in {"breada", "readahead"} => rareq[p] \in RaReqs
    /\ call[p] \in GrowCalls => BlockReq(req[p])
    /\ pc[p] = "getblk" \/ (pc[p] \in Writer /\ ret[p] = "getblk")
          => call[p] \in BlockCalls
    /\ pc[p] \in {"rahead", "ralast"} => call[p] = "breada"
    /\ pc[p] = "biowait" => call[p] = "bread"
    /\ (\/ bp[p] # NoBuf
        \/ pc[p] = "getnewbuf"
        \/ pc[p] \in Writer /\ ret[p] = "getnewbuf")
          => call[p] \in BlockCalls \cup {"geteblk"}

Names(b, r) == buf[b].vp = r.vp /\ buf[b].blkno = r.blkno

(* What the buffers that p has in hand map.                                *)
HeldBy(p) ==
    /\ bp[p] # NoBuf => IF call[p] = "geteblk" THEN ~Has(bp[p], "B_DELWRI")
                                              ELSE Names(bp[p], CurReq(p))
    /\ pc[p] \in {"got", "biowait", "hold"} => buf[bp[p]].bcount = CurReq(p).size
    /\ obp[p] # NoBuf => Names(obp[p], req[p]) /\ buf[obp[p]].bcount = req[p].size
    /\ bp[p] # NoBuf /\ (pc[p] = "getnewbuf" \/ (pc[p] \in Writer /\ ret[p] = "getnewbuf"))
          => buf[bp[p]].bcount <= roundup(CurReq(p).size)

(* A header that may be handed to the driver.                              *)
Whole(h) == h.vp # NoVnode /\ h.bcount >= 1

(* A header is never longer than its memory, and one that is to be written *)
(* can be.                                                                 *)
Sane(h) ==
    /\ h.bcount <= h.bufsize
    /\ h.queue = "EMPTY" => h.bufsize = 0
    /\ "B_DELWRI" \in h.flags => /\ Whole(h) /\ "B_ERROR" \notin h.flags
                                 /\ Covers(h.vp, h.blkno, h.bcount)
    /\ "B_ERROR" \in h.flags => IOErrors

Growing(b) == \E p \in Proc : bp[p] = b /\ call[p] \in GrowCalls

(* Where blocks are not read at larger sizes, a dirty buffer is never      *)
(* being read.                                                             *)
BufOK(b) ==
    /\ Sane(buf[b])
    /\ b \in io => Whole(buf[b])
    /\ ReadsNoMore /\ Has(b, "B_DELWRI") => b \notin io /\ (Has(b, "B_DONE") \/ Growing(b))

(* Where the driver may report errors, it has no dirty buffer.             *)
CleanIo == IOErrors => \A b \in io : ~Has(b, "B_DELWRI")

PanicInv ==
    /\ \A p \in Proc : CallBy(p) /\ HeldBy(p)
    /\ \A b \in Buf : BufOK(b)

-----------------------------------------------------------------------------
(* Lemmas about the operators on buffer headers                            *)

(* Rounding up to clusters never makes a size smaller.                     *)
LEMMA RoundupCovers == ASSUME NEW n \in Nat \ {0} PROVE n <= roundup(n)
<1>1. CL \in Nat /\ CL > 0
  BY ConstantTypes
<1>. DEFINE m == n + CL - 1
            k == m \div CL
<1>2. m \in Nat
  BY <1>1
<1>3. k \in Nat /\ m % CL \in 0 .. CL - 1 /\ m = CL * k + (m % CL)
  BY <1>1, <1>2
<1>4. CL * k \in Nat
  BY <1>1, <1>3
<1>5. roundup(n) = CL * k
  BY DEF roundup
<1>. HIDE DEF k
<1>. QED  BY <1>1, <1>3, <1>4, <1>5

(* brelse, notavail and bwrite keep a header sane; bwrite's header maps    *)
(* what it mapped and is no longer dirty.                                  *)
LEMMA SaneKept ==
    ASSUME NEW h \in BufRec, Sane(h)
    PROVE  /\ Sane(Released(h))
           /\ Sane(notavail(h))
           /\ Sane(Writing(h))
           /\ Whole(h) => Whole(Writing(h)) /\ Whole(notavail(h))
           /\ "B_DELWRI" \notin Writing(h).flags
           /\ "B_DELWRI" \in Released(h).flags <=> "B_DELWRI" \in h.flags
           /\ "B_DONE" \in Released(h).flags <=> "B_DONE" \in h.flags
<1>1. Sane(Released(h))
  BY DEF Sane, Whole, Released, BufRec, Flag, Queue
<1>2. Sane(notavail(h)) /\ (Whole(h) => Whole(notavail(h)))
  BY DEF Sane, Whole, notavail, BufRec, Flag, Queue
<1>3. Sane(Writing(h)) /\ (Whole(h) => Whole(Writing(h))) /\ "B_DELWRI" \notin Writing(h).flags
  BY DEF Sane, Whole, Writing, BufRec, Flag, Queue
<1>4. /\ "B_DELWRI" \in Released(h).flags <=> "B_DELWRI" \in h.flags
      /\ "B_DONE" \in Released(h).flags <=> "B_DONE" \in h.flags
  BY DEF Released, BufRec
<1>. QED  BY <1>1, <1>2, <1>3, <1>4

(* Flags other than B_DELWRI and B_ERROR do not matter.                    *)
LEMMA SaneFlags ==
    ASSUME NEW h \in BufRec, Sane(h), NEW x \in SUBSET Flag,
           "B_DELWRI" \notin x, "B_ERROR" \notin x
    PROVE  /\ [h EXCEPT !.flags = @ \cup x] \in BufRec
           /\ Sane([h EXCEPT !.flags = @ \cup x])
           /\ Whole(h) => Whole([h EXCEPT !.flags = @ \cup x])
BY DEF Sane, Whole, BufRec

-----------------------------------------------------------------------------
(* What a step has to leave alone                                          *)

SameBlock(b) ==
    /\ buf'[b].vp = buf[b].vp /\ buf'[b].blkno = buf[b].blkno
    /\ buf'[b].bcount = buf[b].bcount
    /\ "B_DELWRI" \in buf'[b].flags <=> "B_DELWRI" \in buf[b].flags

OthersKept(p) ==
    \A q \in Proc \ {p} :
       /\ pc'[q] = pc[q] /\ ret'[q] = ret[q] /\ call'[q] = call[q]
       /\ req'[q] = req[q] /\ rareq'[q] = rareq[q]
       /\ bp'[q] = bp[q] /\ obp'[q] = obp[q]

(* A step of p that changes the headers of S alone, none of them, but for  *)
(* flags, the buffer of another process, preserves the invariant if it     *)
(* preserves it for p and S.  (p is NoProc for the disk interrupt.)        *)
LEMMA Frame ==
    ASSUME IInv, PanicInv, NEW p \in Proc \cup {NoProc}, NEW S \in SUBSET Buf,
           OthersKept(p),
           \A c \in Buf \ S : buf'[c] = buf[c],
           \A c \in S : SameBlock(c) \/ \A q \in Proc \ {p} : bp[q] # c /\ obp[q] # c,
           io' \subseteq io \cup S,
           \A c \in S : BufOK(c)',
           p \in Proc /\ bp[p] \in Buf \ S /\ call[p] \in GrowCalls
              => bp'[p] = bp[p] /\ call'[p] \in GrowCalls,
           p \in Proc => CallBy(p)' /\ HeldBy(p)'
    PROVE  PanicInv'
<1>1. ASSUME NEW q \in Proc \ {p} PROVE CallBy(q)' /\ HeldBy(q)'
  <2>1. CallBy(q) /\ HeldBy(q)
    BY DEF PanicInv
  <2>2. CallBy(q)'
    BY <2>1 DEF CallBy, OthersKept, BlockReq, Covers, ReadsNoMore
  <2>3. /\ bp[q] # NoBuf => bp[q] \in Buf /\ SameBlock(bp[q])
        /\ obp[q] # NoBuf => obp[q] \in Buf /\ SameBlock(obp[q])
    BY DEF IInv, TypeOK, SameBlock
  <2>4. pc[q] \in {"got", "biowait", "hold"} => bp[q] # NoBuf
    BY DistinctConstants DEF IInv, PcInv
  <2>5. CurReq(q)' = CurReq(q)
    BY DEF OthersKept, CurReq
  <2>. QED  BY <2>1, <2>2, <2>3, <2>4, <2>5 DEF HeldBy, Names, OthersKept, SameBlock, Has
<1>2. ASSUME NEW c \in Buf \ S PROVE BufOK(c)'
  <2>1. BufOK(c) /\ buf'[c] = buf[c] /\ (c \in io' => c \in io)
    BY DEF PanicInv
  <2>2. Growing(c) => Growing(c)'
    BY DEF Growing, OthersKept
  <2>3. Sane(buf[c])' /\ (c \in io' => Whole(buf[c])')
    BY <2>1 DEF BufOK, Sane, Whole, Covers, ReadsNoMore
  <2>. QED  BY <2>1, <2>2, <2>3 DEF BufOK, Has
<1>. QED  BY <1>1, <1>2 DEF PanicInv

(* The step changes one header.                                            *)
LEMMA FrameOne ==
    ASSUME IInv, PanicInv, NEW p \in Proc \cup {NoProc}, NEW b \in Buf,
           OthersKept(p),
           \A c \in Buf \ {b} : buf'[c] = buf[c],
           SameBlock(b) \/ \A q \in Proc \ {p} : bp[q] # b /\ obp[q] # b,
           io' \subseteq io \cup {b},
           BufOK(b)',
           p \in Proc /\ bp[p] \in Buf \ {b} /\ call[p] \in GrowCalls
              => bp'[p] = bp[p] /\ call'[p] \in GrowCalls,
           p \in Proc => CallBy(p)' /\ HeldBy(p)'
    PROVE  PanicInv'
<1>. DEFINE S == {b}
<1>1. S \in SUBSET Buf /\ \A c \in Buf : c \in S <=> c = b
  OBVIOUS
<1>2. /\ \A c \in Buf \ S : buf'[c] = buf[c]
      /\ \A c \in S : SameBlock(c) \/ \A q \in Proc \ {p} : bp[q] # c /\ obp[q] # c
      /\ \A c \in S : BufOK(c)'
      /\ io' \subseteq io \cup S
  OBVIOUS
<1>. HIDE DEF S
<1>. QED  BY <1>1, <1>2, Frame

(* The step changes no header and no pointer, and p's arguments only as    *)
(* they may.                                                               *)
LEMMA FrameStill ==
    ASSUME IInv, PanicInv, NEW p \in Proc, OthersKept(p),
           UNCHANGED <<buf, io>>,
           bp[p] \in Buf /\ call[p] \in GrowCalls
              => bp'[p] = bp[p] /\ call'[p] \in GrowCalls,
           CallBy(p)', HeldBy(p)'
    PROVE  PanicInv'
BY Frame, {} \in SUBSET Buf

-----------------------------------------------------------------------------
(* Init, and the steps that change no header                               *)

(* binit leaves headers that map nothing and are clean.                    *)
LEMMA InitPanic == Init => PanicInv
<1>. SUFFICES ASSUME Init PROVE PanicInv
  OBVIOUS
<1>1. ASSUME NEW p \in Proc PROVE CallBy(p) /\ HeldBy(p)
  BY DEF Init, CallBy, HeldBy, ReadCalls, GrowCalls, Writer
<1>2. ASSUME NEW b \in Buf PROVE BufOK(b)
  <2>. DEFINE h == [flags |-> {"B_BUSY", "B_INVAL"}, vp |-> NoVnode, blkno |-> 0,
                    bcount |-> 0, bufsize |-> BufSize0[b], queue |-> "none"]
  <2>1. h \in BufRec /\ Sane(h) /\ "B_DELWRI" \notin h.flags
    BY ConstantTypes DEF BufRec, Flag, Queue, Sane
  <2>2. buf[b] = Released(h) /\ b \notin io
    BY DEF Init
  <2>. HIDE DEF h
  <2>. QED  BY <2>1, <2>2, SaneKept DEF BufOK, Has
<1>. QED  BY <1>1, <1>2 DEF PanicInv

(* The requests of the workload are for blocks of a vnode, of at least one *)
(* fragment.                                                               *)
LEMMA WorkloadReqs ==
    \A r \in ReadReqs \cup RaReqs \cup WriteReqs : BlockReq(r)
BY ConstantTypes DEF ReadsNoMore, Covers, BlockReq, Request

(* A client's call sets its arguments.                                     *)
LEMMA NewCallPanic ==
    ASSUME IInv, PanicInv, NEW p \in Proc, NewCall(p)
    PROVE  PanicInv'
<1>. DEFINE Entry(c, r, l) ==
       /\ Enter(p, c, r, l)
       /\ \/ c = "bread" /\ r \in ReadReqs /\ l = "getblk" /\ UNCHANGED rareq
          \/ /\ c = "breada" /\ r \in ReadReqs /\ l \in {"getblk", "rahead"}
             /\ \E ra \in RaReqs : rareq' = [rareq EXCEPT ![p] = ra]
          \/ c = "getblk" /\ r \in WriteReqs /\ l = "getblk" /\ UNCHANGED rareq
          \/ c = "geteblk" /\ l = "getnewbuf" /\ UNCHANGED rareq
          \/ c \in Flusher /\ l = c /\ UNCHANGED rareq
<1>0. \E c, r, l : Entry(c, r, l)
  <2>1. ASSUME NEW r \in ReadReqs, bread(p, r) PROVE Entry("bread", r, "getblk")
    BY <2>1 DEF bread
  <2>2. ASSUME NEW r \in ReadReqs, NEW ra \in RaReqs, breada(p, r, ra)
        PROVE  Entry("breada", r, "getblk") \/ Entry("breada", r, "rahead")
    BY <2>2 DEF breada
  <2>3. ASSUME NEW r \in WriteReqs, getblk(p, r) PROVE Entry("getblk", r, "getblk")
    BY <2>3 DEF getblk
  <2>4. ASSUME NEW n \in EblkSizes, geteblk(p, n)
        PROVE  Entry("geteblk", BlockRequest(n), "getnewbuf")
    BY <2>4 DEF geteblk
  <2>5. ASSUME NEW r \in FlushReqs, blkflush(p, r) PROVE Entry("blkflush", r, "blkflush")
    BY <2>5 DEF blkflush, Flusher
  <2>6. ASSUME NEW v \in FlushVnodes, bflush(p, v)
        PROVE  Entry("bflush", VnodeRequest(v), "bflush")
    BY <2>6 DEF bflush, Flusher
  <2>7. ASSUME NEW v \in InvalVnodes, binvalfree(p, v)
        PROVE  Entry("binvalfree", VnodeRequest(v), "binvalfree")
    BY <2>7 DEF binvalfree, Flusher
  <2>. HIDE DEF Entry
  <2>. QED  BY <2>1, <2>2, <2>3, <2>4, <2>5, <2>6, <2>7 DEF NewCall
<1>1. PICK c, r, l : Entry(c, r, l)
  BY <1>0
<1>2. OthersKept(p) /\ UNCHANGED <<buf, io>> /\ bp'[p] = bp[p] /\ obp'[p] = obp[p]
  BY <1>1 DEF IInv, TypeOK, Enter, Goto, OthersKept
<1>3. /\ pc'[p] = l /\ call'[p] = c /\ req'[p] = r
      /\ c = "breada" => rareq'[p] \in RaReqs
      /\ bp[p] = NoBuf /\ obp[p] = NoBuf /\ pc[p] = "idle" /\ call[p] = "none"
  BY <1>1 DEF Flusher, IInv, TypeOK, PcInv, Enter, At, Goto
<1>4. c = "getblk" => BlockReq(r)
  BY <1>1, WorkloadReqs DEF Flusher
<1>5. CallBy(p)'
  BY <1>1, <1>2, <1>3, <1>4
  DEF CallBy, ReadCalls, GrowCalls, BlockCalls, Writer, Flusher, BlockReq, Covers, ReadsNoMore
<1>6. HeldBy(p)'
  BY <1>1, <1>2, <1>3 DEF HeldBy, Flusher
<1>. QED  BY <1>2, <1>3, <1>5, <1>6, FrameStill DEF GrowCalls

(* The steps that only move a process on.                                  *)
LEMMA BranchPanic ==
    ASSUME IInv, PanicInv, NEW p \in Proc, NEW k, NEW l, At(p, k), Branch(p, l),
           \/ k = "getblk" /\ l = "getnewbuf"
           \/ k = "brealloc" /\ l = "got" /\ CurReq(p).size = buf[bp[p]].bcount
           \/ k = "overlap" /\ l = "allocbuf"
           \/ /\ k = "allocbuf" /\ l = "getnewbuf"
              /\ buf[bp[p]].bcount <= roundup(CurReq(p).size)
           \/ k = "got" /\ l = "hold"
           \/ k = "biowait" /\ l = "hold"
    PROVE  PanicInv'
<1>1. /\ OthersKept(p) /\ UNCHANGED <<buf, io>> /\ pc[p] = k /\ pc'[p] = l
      /\ UNCHANGED <<call, req, rareq, bp, obp, ret>>
  BY DEF IInv, TypeOK, Branch, Goto, At, args, OthersKept
<1>2. CallBy(p) /\ HeldBy(p)
  BY DEF PanicInv
<1>3. k # "getblk" <=> bp[p] # NoBuf
  BY <1>1, DistinctConstants DEF IInv, PcInv
<1>4. CallBy(p)'
  BY <1>1, <1>2, <1>3 DEF CallBy, Writer, BlockReq, Covers, ReadsNoMore
<1>5. HeldBy(p)'
  BY <1>1, <1>2, <1>3 DEF HeldBy, Writer, Names, CurReq, Has
<1>. QED  BY <1>1, <1>4, <1>5, FrameStill

(* The end of a call that has no buffer in hand.                           *)
LEMMA ReturnPanic ==
    ASSUME IInv, PanicInv, NEW p \in Proc,
           At(p, "blkflush") \/ At(p, "bflush") \/ At(p, "binvalfree"),
           Return(p),
           UNCHANGED <<wchan, bp, obp, wbp, ret, buf, freeWanted, io, data>>
    PROVE  PanicInv'
<1>1. /\ OthersKept(p) /\ UNCHANGED <<buf, io, bp, obp>>
      /\ pc'[p] = "idle" /\ call'[p] = "none" /\ bp[p] = NoBuf /\ obp[p] = NoBuf
  BY DistinctConstants
  DEF IInv, TypeOK, PcInv, Return, Done, Goto, At, OthersKept, Flusher
<1>2. CallBy(p)' /\ HeldBy(p)'
  BY <1>1 DEF CallBy, HeldBy, ReadCalls, GrowCalls, Writer
<1>. QED  BY <1>1, <1>2, DistinctConstants, FrameStill

(* Every action that changes no header.                                    *)
LEMMA MovePanic ==
    ASSUME IInv, PanicInv, NEW p \in Proc,
           \/ GetblkMiss(p) \/ BreallocSame(p) \/ OverlapDone(p) \/ AllocbufGrow(p)
           \/ GotReady(p) \/ BreadDone(p) \/ BlkflushDone(p) \/ BflushDone(p)
           \/ BinvalfreeDone(p) \/ BreallocShrink(p) \/ ReadAhead(p)
           \/ GetnewbufWait(p) \/ Biowait(p) \/ BreadaLast(p)
    PROVE  PanicInv'
<1>0. CallBy(p) /\ HeldBy(p)
  BY DEF PanicInv
<1>1. CASE GetblkMiss(p) \/ BreallocSame(p) \/ OverlapDone(p)
  BY <1>1, BranchPanic DEF GetblkMiss, BreallocSame, OverlapDone
<1>a. CASE AllocbufGrow(p)
  <2>1. PICK b \in Buf : bp[p] = b
    BY <1>a DEF IInv, TypeOK, PcInv, AllocbufGrow, At
  <2>2. CurReq(p).size \in Nat \ {0} /\ roundup(CurReq(p).size) > buf[b].bufsize
    BY <1>a, <2>1 DEF IInv, TypeOK, CurReq, Request0, AllocbufGrow
  <2>3. /\ roundup(CurReq(p).size) \in Nat /\ buf[b].bcount \in Nat /\ buf[b].bufsize \in Nat
        /\ buf[b].bcount <= buf[b].bufsize
    BY <2>2, RoundupNat DEF IInv, TypeOK, BufRec, PanicInv, BufOK, Sane
  <2>4. buf[bp[p]].bcount <= roundup(CurReq(p).size)
    BY <2>1, <2>2, <2>3
  <2>. QED  BY <1>a, <2>4, BranchPanic DEF AllocbufGrow
<1>2. CASE GotReady(p) \/ BreadDone(p)
  BY <1>2, BranchPanic DEF GotReady, BreadDone
<1>3. CASE BlkflushDone(p) \/ BflushDone(p) \/ BinvalfreeDone(p)
  BY <1>3, ReturnPanic DEF BlkflushDone, BflushDone, BinvalfreeDone
<1>4. CASE BreallocShrink(p)
  <2>1. /\ OthersKept(p) /\ UNCHANGED <<buf, io>>
        /\ UNCHANGED <<call, req, rareq, bp, obp, ret>>
        /\ pc[p] = "brealloc" /\ pc'[p] = "allocbuf" /\ bp[p] # NoBuf
    BY <1>4, DistinctConstants
    DEF IInv, TypeOK, PcInv, BreallocShrink, At, Goto, args, OthersKept
  <2>2. CallBy(p)' /\ HeldBy(p)'
    BY <1>0, <2>1 DEF CallBy, HeldBy, Names, CurReq, Has, Writer, BlockReq, Covers, ReadsNoMore
  <2>. QED  BY <2>1, <2>2, FrameStill
<1>5. CASE ReadAhead(p)
  <2>1. /\ OthersKept(p) /\ UNCHANGED <<buf, io>>
        /\ UNCHANGED <<req, rareq, bp, obp, ret>>
        /\ pc[p] = "rahead" /\ bp[p] = NoBuf /\ call[p] = "breada"
        /\ \/ pc'[p] = "ralast" /\ call'[p] = "breada"
           \/ pc'[p] = "getblk" /\ call'[p] = "readahead"
    BY <1>0, <1>5 DEF IInv, TypeOK, PcInv, ReadAhead, At, Goto, OthersKept, CallBy
  <2>2. CallBy(p)' /\ HeldBy(p)'
    BY <1>0, <2>1
    DEF CallBy, HeldBy, Names, CurReq, Has, Writer, ReadCalls, GrowCalls, BlockCalls
  <2>. QED  BY <2>1, <2>2, DistinctConstants, FrameStill
<1>6. CASE GetnewbufWait(p) \/ Biowait(p)
  <2>1. OthersKept(p) /\ UNCHANGED <<buf, io, pc, call, req, rareq, bp, obp, ret>>
    BY <1>6 DEF GetnewbufWait, Biowait, Sleep, args, OthersKept
  <2>2. CallBy(p)' /\ HeldBy(p)'
    BY <1>0, <2>1 DEF CallBy, HeldBy, Names, CurReq, Has, BlockReq, Covers, ReadsNoMore
  <2>. QED  BY <2>1, <2>2, FrameStill
<1>7. CASE BreadaLast(p)
  <2>1. /\ OthersKept(p) /\ UNCHANGED <<buf, io, req, ret>>
        /\ call[p] = "breada" /\ bp[p] = NoBuf /\ call'[p] = "bread"
        /\ \/ /\ pc'[p] = "getblk" /\ bp'[p] = NoBuf /\ obp'[p] = NoBuf
           \/ /\ pc'[p] = "biowait" /\ bp'[p] = obp[p] /\ obp[p] # NoBuf /\ obp'[p] = NoBuf
    BY <1>0, <1>7 DEF IInv, TypeOK, PcInv, BreadaLast, At, Goto, OthersKept, CallBy
  <2>2. CallBy(p)'
    BY <1>0, <2>1 DEF CallBy, Writer, ReadCalls, GrowCalls, BlockCalls
  <2>3. HeldBy(p)'
    BY <1>0, <2>1 DEF HeldBy, Writer, Names, CurReq, Has
  <2>. QED  BY <2>1, <2>2, <2>3, DistinctConstants, FrameStill
<1>. QED  BY <1>1, <1>a, <1>2, <1>3, <1>4, <1>5, <1>6, <1>7

(* realloccg asks for more than any client reads of the block.             *)
LEMMA ReallocPanic ==
    ASSUME IInv, PanicInv, NEW p \in Proc, NEW g \in GrowBy, Realloc(p, g)
    PROVE  PanicInv'
<1>1. /\ OthersKept(p) /\ UNCHANGED <<buf, io, bp, obp, ret>>
      /\ pc[p] = "hold" /\ call[p] = "bread" /\ pc'[p] = "brealloc" /\ call'[p] = "realloc"
      /\ req'[p] = [req[p] EXCEPT !.size = req[p].size + g]
      /\ bp[p] # NoBuf
  BY DistinctConstants
  DEF IInv, TypeOK, PcInv, Realloc, Writable, At, Goto, OthersKept
<1>2. CallBy(p) /\ HeldBy(p) /\ req[p] \in Request0 /\ obp[p] = NoBuf
  BY <1>1 DEF PanicInv, IInv, TypeOK, PcInv
<1>3. req[p] \in ReadReqs /\ BlockReq(req[p]) /\ req[p].size \in Nat /\ g \in Nat
  BY <1>1, <1>2, WorkloadReqs, ConstantTypes DEF CallBy, ReadCalls, Request0
<1>4. /\ req'[p].vp = req[p].vp /\ req'[p].blkno = req[p].blkno
      /\ req'[p].size = req[p].size + g
  BY <1>1, <1>2 DEF Request0
<1>5. \A r \in ReadReqs \cup RaReqs : r.size \in Nat
  BY ConstantTypes DEF Request
<1>6. BlockReq(req[p])'
  BY <1>3, <1>4, <1>5 DEF BlockReq, Covers, ReadsNoMore
<1>7. CallBy(p)'
  BY <1>1, <1>6 DEF CallBy, Writer, ReadCalls, GrowCalls, BlockCalls
<1>8. HeldBy(p)'
  BY <1>1, <1>2, <1>4 DEF HeldBy, Writer, Names, CurReq, Has
<1>. QED  BY <1>1, <1>7, <1>8, FrameStill DEF GrowCalls

-----------------------------------------------------------------------------
(* Who has the buffer that a step changes                                  *)

(* A buffer on a free list is in nobody's hand and not with the driver.    *)
LEMMA FreeFacts ==
    ASSUME IInv, NEW b \in Buf, ~Has(b, "B_BUSY") \/ buf[b].queue # "none"
    PROVE  /\ b \notin io /\ ~Growing(b)
           /\ \A q \in Proc : bp[q] # b /\ obp[q] # b
<1>1. ~Has(b, "B_BUSY") /\ b \notin io
  BY DEF IInv, FlagInv
<1>2. \A q \in Proc : bp[q] # b /\ obp[q] # b
  BY <1>1 DEF IInv, OwnInv, Owns
<1>. QED  BY <1>1, <1>2 DEF Growing

(* The buffer of getblk, brealloc or the client is in one hand.            *)
LEMMA OwnFacts ==
    ASSUME IInv, NEW p \in Proc, bp[p] \in Buf
    PROVE  /\ buf[bp[p]] \in BufRec
           /\ \A q \in Proc \ {p} : bp[q] # bp[p] /\ obp[q] # bp[p]
           /\ obp[p] # bp[p]
           /\ Growing(bp[p]) <=> call[p] \in GrowCalls
           /\ pc[p] # "biowait" => bp[p] \notin io
<1>1. \A q \in Proc \ {p} : bp[q] # bp[p] /\ obp[q] # bp[p]
  BY DEF IInv, OwnInv, Owns
<1>. QED  BY <1>1 DEF IInv, TypeOK, OwnInv, IoInv, Growing

(* The header that bwrite gives the driver is in order.                    *)
LEMMA WrittenOK ==
    ASSUME NEW b \in Buf, NEW h \in BufRec, Sane(h), Whole(h), buf'[b] = Writing(h)
    PROVE  BufOK(b)'
<1>1. Sane(Writing(h)) /\ Whole(Writing(h)) /\ "B_DELWRI" \notin Writing(h).flags
  BY SaneKept
<1>. QED  BY <1>1 DEF BufOK, Has, Sane, Whole, Covers, ReadsNoMore

(* The header that brelse puts on a free list is in order.                 *)
LEMMA ReleasedOK ==
    ASSUME NEW b \in Buf, NEW h \in BufRec, Sane(h), buf'[b] = Released(h), b \notin io',
           ReadsNoMore /\ "B_DELWRI" \in h.flags => "B_DONE" \in h.flags
    PROVE  BufOK(b)'
<1>1. /\ Sane(Released(h))
      /\ "B_DELWRI" \in Released(h).flags <=> "B_DELWRI" \in h.flags
      /\ "B_DONE" \in Released(h).flags <=> "B_DONE" \in h.flags
  BY SaneKept
<1>. QED  BY <1>1 DEF BufOK, Has, Sane, Whole, Covers, ReadsNoMore

-----------------------------------------------------------------------------
(* Steps that write a delayed block found on a free list                   *)

(* The pushes of brealloc, blkflush, getnewbuf, bflush and binvalfree.     *)
LEMMA PushPanic ==
    ASSUME IInv, PanicInv, NEW p \in Proc, NEW b \in Buf, NEW h \in BufRec, NEW l,
           l = pc[p], pc[p] \in {"overlap", "blkflush", "getnewbuf", "bflush", "binvalfree"},
           ~Has(b, "B_BUSY"), Sane(h), Whole(h), "B_DELWRI" \in h.flags,
           bwrite(p, b, h, l),
           UNCHANGED <<wchan, args, bp, obp, freeWanted, data>>
    PROVE  PanicInv'
<1>1. /\ buf' = [buf EXCEPT ![b] = Writing(h)] /\ io' = io \cup {b}
      /\ ret' = [ret EXCEPT ![p] = l]
      /\ \E m \in Writer : pc' = [pc EXCEPT ![p] = m]
  BY DEF bwrite, Strategy, Goto, Writer
<1>2. /\ OthersKept(p) /\ UNCHANGED <<call, req, rareq, bp, obp>>
      /\ pc'[p] \in Writer /\ ret'[p] = pc[p]
      /\ buf'[b] = Writing(h) /\ \A c \in Buf \ {b} : buf'[c] = buf[c]
  BY <1>1 DEF IInv, TypeOK, OthersKept, args
<1>3. b \notin io /\ \A q \in Proc : bp[q] # b /\ obp[q] # b
  BY FreeFacts
<1>4. BufOK(b)'
  BY <1>2, WrittenOK
<1>5. CallBy(p) /\ HeldBy(p)
  BY DEF PanicInv
<1>6. CallBy(p)'
  BY <1>2, <1>5 DEF CallBy, Writer, BlockReq, Covers, ReadsNoMore
<1>7. HeldBy(p)'
  <2>1. /\ bp[p] # NoBuf => bp[p] \in Buf /\ buf'[bp[p]] = buf[bp[p]]
        /\ obp[p] # NoBuf => obp[p] \in Buf /\ buf'[obp[p]] = buf[obp[p]]
    BY <1>2, <1>3 DEF IInv, TypeOK
  <2>. QED  BY <1>2, <1>5, <2>1 DEF HeldBy, Names, CurReq, Has, Writer
<1>. QED  BY <1>1, <1>2, <1>3, <1>4, <1>6, <1>7, FrameOne

(* The actions that take a buffer from a free list.                        *)
LEMMA AcquirePanic ==
    ASSUME IInv, PanicInv, NEW p \in Proc, NEW b \in Buf,
           \/ WriteDirty(p, b) \/ GetblkHit(p, b) \/ GetnewbufPush(p, b)
           \/ FlushPush(p, b) \/ GetblkNew(p, b) \/ GeteblkNew(p, b)
    PROVE  PanicInv'
<1>0. /\ buf[b] \in BufRec /\ Sane(buf[b]) /\ BufOK(b)
      /\ notavail(buf[b]) \in BufRec /\ Sane(notavail(buf[b]))
      /\ notavail(buf[b]).flags = buf[b].flags \cup {"B_BUSY"}
      /\ Has(b, "B_DELWRI") => Whole(notavail(buf[b]))
  BY SaneKept, notavailFacts DEF IInv, TypeOK, PanicInv, BufOK, Sane, Has
<1>a. CallBy(p) /\ HeldBy(p)
  BY DEF PanicInv
<1>b. CurReq(p) \in Request0
  BY DEF IInv, TypeOK, CurReq
<1>1. CASE WriteDirty(p, b)
  BY <1>0, <1>1, PushPanic DEF WriteDirty, At, Has
<1>2. CASE GetnewbufPush(p, b) \/ FlushPush(p, b)
  <2>. DEFINE h == [notavail(buf[b]) EXCEPT !.flags = @ \cup {"B_ASYNC"}]
  <2>1. {"B_ASYNC"} \in SUBSET Flag /\ Has(b, "B_DELWRI")
    BY <1>2 DEF Flag, GetnewbufPush, FlushPush
  <2>2. h \in BufRec /\ Sane(h) /\ Whole(h) /\ "B_DELWRI" \in h.flags
    <3>1. h \in BufRec /\ Sane(h) /\ Whole(h)
      BY <1>0, <2>1, SaneFlags
    <3>2. h.flags = buf[b].flags \cup {"B_BUSY", "B_ASYNC"}
      BY <1>0 DEF BufRec
    <3>. QED  BY <2>1, <3>1, <3>2 DEF Has
  <2>3. ~Has(b, "B_BUSY")
    BY <1>2 DEF IInv, FlagInv, GetnewbufPush, FlushPush, NewBufChoices, FreeOf, OnQueue
  <2>. HIDE DEF h
  <2>4. CASE GetnewbufPush(p, b)
    BY <2>2, <2>3, <2>4, PushPanic DEF GetnewbufPush, At, h
  <2>5. CASE FlushPush(p, b)
    BY <2>2, <2>3, <2>5, PushPanic DEF FlushPush, At, h
  <2>. QED  BY <1>2, <2>4, <2>5
<1>3. CASE GetblkHit(p, b)
  <2>1. /\ At(p, "getblk") /\ Matches(b, CurReq(p)) /\ ~Has(b, "B_BUSY")
        /\ buf' = [buf EXCEPT ![b] = notavail(@)] /\ bp' = [bp EXCEPT ![p] = b]
        /\ Goto(p, "brealloc")
        /\ UNCHANGED <<wchan, args, obp, wbp, ret, freeWanted, io, data>>
    BY <1>3 DEF GetblkHit, Found, At
  <2>2. /\ OthersKept(p) /\ UNCHANGED <<call, req, rareq, obp, ret, io>>
        /\ pc[p] = "getblk" /\ bp[p] = NoBuf /\ pc'[p] = "brealloc" /\ bp'[p] = b
        /\ buf'[b] = notavail(buf[b]) /\ \A c \in Buf \ {b} : buf'[c] = buf[c]
    BY <2>1 DEF IInv, TypeOK, PcInv, OthersKept, args, At, Goto
  <2>3. /\ b \notin io /\ ~Growing(b)
        /\ \A q \in Proc : bp[q] # b /\ obp[q] # b
    BY <2>1, FreeFacts
  <2>4. BufOK(b)'
    BY <1>0, <2>2, <2>3 DEF BufOK, Has, Sane, Whole, Covers, ReadsNoMore
  <2>5. CallBy(p)' /\ call[p] # "geteblk"
    BY <1>a, <2>2 DEF CallBy, Writer, BlockReq, Covers, ReadsNoMore, BlockCalls
  <2>6. Names(b, CurReq(p))'
    BY <1>0, <2>1, <2>2 DEF Names, Matches, CurReq, notavail, BufRec
  <2>7. obp[p] # NoBuf => obp[p] \in Buf /\ buf'[obp[p]] = buf[obp[p]]
    BY <2>2, <2>3 DEF IInv, TypeOK
  <2>8. HeldBy(p)'
    BY <1>a, <2>2, <2>5, <2>6, <2>7 DEF HeldBy, Writer, Names
  <2>. QED  BY <2>2, <2>3, <2>4, <2>5, <2>8, DistinctConstants, FrameOne
<1>4. CASE GetblkNew(p, b) \/ GeteblkNew(p, b)
  <2>. DEFINE g == [NewBuf(b) EXCEPT !.bcount = 0, !.vp = CurReq(p).vp,
                                     !.blkno = CurReq(p).blkno]
              e == [NewBuf(b) EXCEPT !.bcount = 0, !.flags = @ \cup {"B_INVAL"}]
  <2>1. /\ NewBuf(b) \in BufRec /\ NewBuf(b).flags = {"B_BUSY"}
        /\ NewBuf(b).queue = "none" /\ NewBuf(b).bufsize = buf[b].bufsize
    BY NewBufFacts DEF IInv, TypeOK
  <2>a. /\ g \in BufRec /\ g.bcount = 0 /\ g.bufsize = buf[b].bufsize
        /\ g.queue = "none" /\ g.flags = {"B_BUSY"}
        /\ g.vp = CurReq(p).vp /\ g.blkno = CurReq(p).blkno
    BY <1>b, <2>1 DEF BufRec, Request0
  <2>b. /\ e \in BufRec /\ e.bcount = 0 /\ e.bufsize = buf[b].bufsize
        /\ e.queue = "none" /\ e.flags = {"B_BUSY", "B_INVAL"}
    BY <2>1 DEF BufRec, Flag
  <2>c. \/ buf' = [buf EXCEPT ![b] = g] /\ call[p] # "geteblk"
        \/ buf' = [buf EXCEPT ![b] = e] /\ call[p] = "geteblk"
    BY <1>4 DEF GetblkNew, GeteblkNew
  <2>. HIDE DEF g, e
  <2>2. Sane(g) /\ "B_DELWRI" \notin g.flags
    BY <1>0, <2>a DEF Sane, BufRec
  <2>3. Sane(e) /\ "B_DELWRI" \notin e.flags
    BY <1>0, <2>b DEF Sane, BufRec
  <2>4. PICK h : /\ \/ h = g /\ call[p] # "geteblk"
                    \/ h = e /\ call[p] = "geteblk"
                 /\ buf' = [buf EXCEPT ![b] = h]
    BY <2>c
  <2>5. /\ OthersKept(p) /\ UNCHANGED <<call, req, rareq, obp, ret, io>>
        /\ pc[p] = "getnewbuf" /\ bp[p] = NoBuf /\ pc'[p] = "brealloc" /\ bp'[p] = b
        /\ buf'[b] = h /\ \A c \in Buf \ {b} : buf'[c] = buf[c]
    BY <1>4, <2>4
    DEF IInv, TypeOK, PcInv, OthersKept, args, At, Goto, GetblkNew, GeteblkNew, GetnewbufTake
  <2>6. buf[b].queue # "none"
    BY <1>4 DEF GetblkNew, GeteblkNew, GetnewbufTake, NewBufChoices, OnQueue
  <2>7. /\ b \notin io
        /\ \A q \in Proc : bp[q] # b /\ obp[q] # b
    BY <2>6, FreeFacts
  <2>8. BufOK(b)'
    BY <2>2, <2>3, <2>4, <2>5, <2>7 DEF BufOK, Has, Sane, Whole, Covers, ReadsNoMore
  <2>9. CallBy(p)'
    BY <1>a, <2>5 DEF CallBy, Writer, BlockReq, Covers, ReadsNoMore
  <2>10. IF call[p] = "geteblk" THEN ~Has(b, "B_DELWRI")' ELSE Names(b, CurReq(p))'
    BY <2>a, <2>2, <2>3, <2>4, <2>5 DEF Names, CurReq, Has
  <2>11. obp[p] # NoBuf => obp[p] \in Buf /\ buf'[obp[p]] = buf[obp[p]]
    BY <2>5, <2>7 DEF IInv, TypeOK
  <2>12. HeldBy(p)'
    BY <1>a, <2>5, <2>10, <2>11 DEF HeldBy, Writer, Names, Has
  <2>. QED  BY <2>5, <2>7, <2>8, <2>9, <2>12, DistinctConstants, FrameOne
<1>. QED  BY <1>1, <1>2, <1>3, <1>4

-----------------------------------------------------------------------------
(* Steps that release a buffer                                             *)

(* p gives up the buffer in its hand: what it has left is what it had.     *)
LEMMA GivenUp ==
    ASSUME IInv, PanicInv, NEW p \in Proc, NEW b \in Buf, bp[p] = b, OthersKept(p),
           \A c \in Buf \ {b} : buf'[c] = buf[c],
           io' \subseteq io \cup {b}, BufOK(b)',
           bp'[p] = NoBuf,
           \/ obp'[p] = NoBuf
           \/ obp'[p] = obp[p] /\ req'[p] = req[p]
           \/ /\ obp'[p] = b /\ req'[p] = req[p]
              /\ buf'[b].vp = req[p].vp /\ buf'[b].blkno = req[p].blkno
              /\ buf'[b].bcount = req[p].size,
           pc'[p] \notin {"got", "biowait", "hold"}, CallBy(p)'
    PROVE  PanicInv'
<1>1. obp[p] # b /\ \A q \in Proc \ {p} : bp[q] # b /\ obp[q] # b
  BY OwnFacts
<1>2. HeldBy(p)
  BY DEF PanicInv
<1>3. obp[p] # NoBuf => obp[p] \in Buf /\ buf'[obp[p]] = buf[obp[p]]
  BY <1>1 DEF IInv, TypeOK
<1>4. HeldBy(p)'
  BY <1>2, <1>3, DistinctConstants DEF HeldBy, Names
<1>. QED  BY <1>1, <1>4, FrameOne

(* The actions that release a buffer.                                      *)
LEMMA ReleasePanic ==
    ASSUME IInv, PanicInv, NEW p \in Proc,
           \/ ReadAheadGot(p) /\ Has(bp[p], "B_DONE")
           \/ Bdwrite(p)
           \/ \E extra \in RelFlags : Brelse(p, extra)
    PROVE  PanicInv'
<1>0. CallBy(p) /\ HeldBy(p)
  BY DEF PanicInv
<1>a. PICK b \in Buf : bp[p] = b
  BY DEF IInv, TypeOK, PcInv, ReadAheadGot, Bdwrite, Brelse, Writable, At
<1>b. /\ buf[b] \in BufRec /\ Sane(buf[b]) /\ BufOK(b)
      /\ Growing(b) <=> call[p] \in GrowCalls
      /\ pc[p] # "biowait" => b \notin io
  BY <1>a, OwnFacts DEF PanicInv, BufOK
<1>1. CASE ReadAheadGot(p) /\ Has(bp[p], "B_DONE")
  <2>1. /\ OthersKept(p) /\ UNCHANGED <<req, rareq, obp, ret, io>>
        /\ pc[p] = "got" /\ call[p] = "readahead" /\ call'[p] = "breada"
        /\ pc'[p] = "ralast" /\ bp'[p] = NoBuf
        /\ buf'[b] = Released(buf[b]) /\ \A c \in Buf \ {b} : buf'[c] = buf[c]
    BY <1>1, <1>a DEF IInv, TypeOK, ReadAheadGot, brelse, At, Goto, OthersKept
  <2>2. BufOK(b)'
    BY <1>1, <1>a, <1>b, <2>1, ReleasedOK DEF Has
  <2>3. CallBy(p)'
    BY <1>0, <2>1 DEF CallBy, Writer, ReadCalls, GrowCalls
  <2>. QED  BY <1>a, <2>1, <2>2, <2>3, GivenUp
<1>2. ASSUME NEW h \in BufRec, Sane(h), brelse(b, h), Give(p), Return(p), At(p, "hold"),
             UNCHANGED <<obp, wbp, ret, io>>, call[p] \notin {"breada", "readahead"},
             ReadsNoMore /\ "B_DELWRI" \in h.flags => "B_DONE" \in h.flags
      PROVE  PanicInv'
  <2>0. obp[p] = NoBuf
    BY <1>2 DEF IInv, PcInv
  <2>1. /\ OthersKept(p) /\ UNCHANGED <<obp, ret, io>>
        /\ pc[p] = "hold" /\ call'[p] = "none" /\ pc'[p] = "idle" /\ bp'[p] = NoBuf
        /\ buf'[b] = Released(h) /\ \A c \in Buf \ {b} : buf'[c] = buf[c]
    BY <1>2, <1>a DEF IInv, TypeOK, brelse, At, Goto, Return, Done, Give, OthersKept
  <2>2. BufOK(b)'
    BY <1>2, <1>b, <2>1, ReleasedOK
  <2>3. CallBy(p)'
    BY <2>1 DEF CallBy, Writer, ReadCalls, GrowCalls
  <2>. QED  BY <1>a, <2>0, <2>1, <2>2, <2>3, GivenUp
<1>3. CASE Bdwrite(p)
  <2>. DEFINE h == [buf[b] EXCEPT !.flags = @ \cup {"B_DELWRI", "B_DONE"}]
  <2>1. /\ At(p, "hold") /\ call[p] \in {"bread", "getblk", "realloc"}
        /\ "B_ERROR" \notin buf[b].flags
        /\ brelse(b, h) /\ Give(p) /\ Return(p) /\ UNCHANGED <<obp, wbp, ret, io>>
    BY <1>3, <1>a DEF Bdwrite, Writable, Has
  <2>2. BlockReq(req[p]) /\ req[p].size \in Nat \ {0}
    BY <1>0, <2>1, WorkloadReqs
    DEF IInv, TypeOK, CallBy, ReadCalls, GrowCalls, Request0
  <2>3. buf[b].vp = req[p].vp /\ buf[b].blkno = req[p].blkno /\ buf[b].bcount = req[p].size
    BY <1>0, <1>a, <2>1, DistinctConstants DEF HeldBy, Names, CurReq, At
  <2>4. Whole(buf[b]) /\ Covers(buf[b].vp, buf[b].blkno, buf[b].bcount)
    BY <2>2, <2>3, DistinctConstants DEF BlockReq, Whole
  <2>5. /\ h \in BufRec /\ h.flags = buf[b].flags \cup {"B_DELWRI", "B_DONE"}
        /\ h.vp = buf[b].vp /\ h.blkno = buf[b].blkno /\ h.bcount = buf[b].bcount
        /\ h.bufsize = buf[b].bufsize /\ h.queue = buf[b].queue
    BY <1>b DEF BufRec, Flag
  <2>. HIDE DEF h
  <2>6. Sane(h)
    BY <1>b, <2>1, <2>4, <2>5 DEF Sane, Whole
  <2>. QED  BY <1>2, <2>1, <2>5, <2>6
<1>4. ASSUME NEW extra \in RelFlags, Brelse(p, extra) PROVE PanicInv'
  <2>. DEFINE h == [buf[b] EXCEPT !.flags = @ \cup extra]
  <2>1. /\ At(p, "hold") /\ call[p] \in {"bread", "geteblk"}
        /\ brelse(b, h) /\ Give(p) /\ Return(p) /\ UNCHANGED <<obp, wbp, ret, io>>
    BY <1>4, <1>a DEF Brelse
  <2>2. extra \in SUBSET Flag /\ "B_DELWRI" \notin extra /\ "B_ERROR" \notin extra
    BY ConstantTypes DEF Flag
  <2>3. h \in BufRec /\ Sane(h)
    BY <1>b, <2>2, SaneFlags
  <2>4. h.flags = buf[b].flags \cup extra
    BY <1>b DEF BufRec
  <2>5. ReadsNoMore /\ "B_DELWRI" \in h.flags => "B_DONE" \in h.flags
    BY <1>b, <2>1, <2>2, <2>4 DEF BufOK, Has, GrowCalls
  <2>. HIDE DEF h
  <2>. QED  BY <1>2, <2>1, <2>3, <2>5
<1>. QED  BY <1>1, <1>3, <1>4

(* The end of a synchronous write, and bwrite's late B_AGE.                *)
LEMMA WriterPanic ==
    ASSUME IInv, PanicInv, NEW p \in Proc, BwriteDone(p) \/ SetAge(p)
    PROVE  PanicInv'
<1>0. CallBy(p) /\ HeldBy(p)
  BY DEF PanicInv
<1>1. PICK b \in Buf : wbp[p] = b
  BY DEF IInv, TypeOK, PcInv, BwriteDone, SetAge, At, Writer
<1>2. buf[b] \in BufRec /\ Sane(buf[b]) /\ BufOK(b)
  BY DEF PanicInv, BufOK, IInv, TypeOK
<1>3. /\ OthersKept(p) /\ UNCHANGED <<call, req, rareq, bp, obp, io>>
      /\ pc[p] \in Writer /\ pc'[p] = ret[p] /\ ret'[p] = "idle"
  BY DEF IInv, TypeOK, BwriteDone, SetAge, BwriteReturn, At, Goto, OthersKept, args, Writer
<1>4. ret[p] \in {"idle", "getblk", "getnewbuf", "overlap", "blkflush", "bflush", "binvalfree"}
  BY <1>3 DEF IInv, PcInv
<1>5. CallBy(p)'
  BY <1>0, <1>3, <1>4 DEF CallBy, Writer, BlockReq, Covers, ReadsNoMore
<1>6. CASE BwriteDone(p)
  <2>1. /\ buf' = [buf EXCEPT ![b] = Released(buf[b])] /\ Has(b, "B_DONE")
        /\ pc[p] = "bwait"
    BY <1>1, <1>6 DEF BwriteDone, brelse, At
  <2>2. buf'[b] = Released(buf[b]) /\ \A c \in Buf \ {b} : buf'[c] = buf[c]
    BY <2>1 DEF IInv, TypeOK
  <2>3. b \notin io /\ \A q \in Proc : bp[q] # b /\ obp[q] # b
    BY <1>1, <2>1 DEF IInv, FlagInv, OwnInv, Owns
  <2>4. BufOK(b)'
    BY <1>2, <1>3, <2>1, <2>2, <2>3, ReleasedOK DEF Has
  <2>5. /\ bp[p] # NoBuf => bp[p] \in Buf /\ buf'[bp[p]] = buf[bp[p]]
        /\ obp[p] # NoBuf => obp[p] \in Buf /\ buf'[obp[p]] = buf[obp[p]]
    BY <2>2, <2>3 DEF IInv, TypeOK
  <2>6. HeldBy(p)'
    BY <1>0, <1>3, <1>4, <2>5 DEF HeldBy, Names, CurReq, Has
  <2>. QED  BY <1>3, <1>5, <2>2, <2>3, <2>4, <2>6, FrameOne
<1>7. CASE SetAge(p)
  <2>. DEFINE h == [buf[b] EXCEPT !.flags = @ \cup {"B_AGE"}]
  <2>1. buf' = [buf EXCEPT ![b] = h]
    BY <1>1, <1>7 DEF SetAge
  <2>2. /\ h.flags = buf[b].flags \cup {"B_AGE"} /\ h.vp = buf[b].vp
        /\ h.blkno = buf[b].blkno /\ h.bcount = buf[b].bcount
    BY <1>2 DEF BufRec
  <2>3. Sane(h) /\ (Whole(buf[b]) => Whole(h))
    BY <1>2, SaneFlags DEF Flag
  <2>. HIDE DEF h
  <2>4. buf'[b] = h /\ \A c \in Buf \ {b} : buf'[c] = buf[c]
    BY <2>1 DEF IInv, TypeOK
  <2>5. \A c \in Buf : SameBlock(c)
    BY <2>2, <2>4 DEF SameBlock
  <2>6. Growing(b)' <=> Growing(b)
    BY <1>3 DEF Growing
  <2>7. BufOK(b)'
    BY <1>2, <1>3, <2>2, <2>3, <2>4, <2>6 DEF BufOK, Has, Sane, Whole, Covers, ReadsNoMore
  <2>8. /\ bp[p] # NoBuf => SameBlock(bp[p])
        /\ obp[p] # NoBuf => SameBlock(obp[p])
    BY <2>5 DEF IInv, TypeOK
  <2>9. HeldBy(p)'
    BY <1>0, <1>3, <1>4, <2>8 DEF HeldBy, Names, CurReq, Has, SameBlock
  <2>. QED  BY <1>3, <1>5, <2>4, <2>5, <2>7, <2>9, FrameOne
<1>. QED  BY <1>6, <1>7

-----------------------------------------------------------------------------
(* Steps that change the header in p's hand, or one on a free list         *)

(* p goes on with a header that maps the same block, perhaps more of it.   *)
LEMMA KeptOn ==
    ASSUME IInv, PanicInv, NEW p \in Proc, NEW b \in Buf, bp[p] = b, OthersKept(p),
           UNCHANGED <<call, req, rareq, bp, obp, ret>>,
           \A c \in Buf \ {b} : buf'[c] = buf[c] \/ (\A q \in Proc : bp[q] # c /\ obp[q] # c),
           buf'[b].vp = buf[b].vp, buf'[b].blkno = buf[b].blkno,
           "B_DELWRI" \in buf'[b].flags => "B_DELWRI" \in buf[b].flags,
           pc'[p] \in {"got", "biowait", "hold"} => buf'[b].bcount = CurReq(p).size,
           pc'[p] \notin Writer \cup {"getblk", "getnewbuf", "rahead", "ralast"},
           pc'[p] = "biowait" => call[p] = "bread"
    PROVE  CallBy(p)' /\ HeldBy(p)'
<1>1. CallBy(p) /\ HeldBy(p)
  BY DEF PanicInv
<1>2. obp[p] # b /\ b # NoBuf
  BY OwnFacts, DistinctConstants
<1>3. obp[p] # NoBuf => obp[p] \in Buf /\ buf'[obp[p]] = buf[obp[p]]
  BY <1>2 DEF IInv, TypeOK
<1>4. CurReq(p)' = CurReq(p)
  BY DEF CurReq
<1>5. CallBy(p)'
  BY <1>1, <1>2 DEF CallBy, Writer, BlockReq, Covers, ReadsNoMore
<1>6. HeldBy(p)'
  BY <1>1, <1>2, <1>3, <1>4 DEF HeldBy, Names, Has
<1>. QED  BY <1>5, <1>6

(* What brealloc and allocbuf make of the buffer: if it is dirty, its new  *)
(* size covers what clients read of it.                                    *)
LEMMA Resized ==
    ASSUME IInv, PanicInv, NEW p \in Proc, NEW b \in Buf, bp[p] = b
    PROVE  /\ CurReq(p) \in Request0
           /\ Has(b, "B_DELWRI") =>
                 /\ call[p] \in BlockCalls
                 /\ BlockReq(CurReq(p))
                 /\ buf[b].vp = CurReq(p).vp /\ buf[b].blkno = CurReq(p).blkno
<1>1. CallBy(p) /\ HeldBy(p) /\ b # NoBuf
  BY DistinctConstants DEF PanicInv
<1>2. CurReq(p) \in Request0
  BY DEF IInv, TypeOK, CurReq
<1>3. Has(b, "B_DELWRI") => call[p] \in BlockCalls
  BY <1>1 DEF CallBy, HeldBy
<1>4. call[p] \in BlockCalls => BlockReq(CurReq(p))
  BY <1>1, WorkloadReqs DEF CallBy, BlockCalls, ReadCalls, GrowCalls, CurReq
<1>. QED  BY <1>1, <1>2, <1>3, <1>4 DEF HeldBy, Names, BlockCalls

(* brealloc of a buffer that is to grow: a read does not meet a dirty      *)
(* buffer here.                                                            *)
LEMMA BreallocGrowPanic ==
    ASSUME IInv, PanicInv, NEW p \in Proc, BreallocGrow(p)
    PROVE  PanicInv'
<1>1. PICK b \in Buf : bp[p] = b
  BY DEF IInv, TypeOK, PcInv, BreallocGrow, At
<1>. DEFINE h == [buf[b] EXCEPT !.flags = @ \ {"B_DONE"}]
<1>2. /\ buf[b] \in BufRec /\ Sane(buf[b]) /\ BufOK(b) /\ pc[p] = "brealloc"
      /\ Growing(b) <=> call[p] \in GrowCalls
      /\ b \notin io
      /\ \A q \in Proc \ {p} : bp[q] # b /\ obp[q] # b
  BY <1>1, OwnFacts DEF PanicInv, BufOK, BreallocGrow, At
<1>3. /\ h \in BufRec /\ h.flags = buf[b].flags \ {"B_DONE"} /\ h.vp = buf[b].vp
      /\ h.blkno = buf[b].blkno /\ h.bcount = buf[b].bcount
      /\ h.bufsize = buf[b].bufsize /\ h.queue = buf[b].queue
  BY <1>2 DEF BufRec
<1>4. buf' = [buf EXCEPT ![b] = h]
  BY <1>1 DEF BreallocGrow
<1>. HIDE DEF h
<1>5. /\ OthersKept(p) /\ UNCHANGED <<call, req, rareq, bp, obp, ret, io>>
      /\ buf'[b] = h /\ \A c \in Buf \ {b} : buf'[c] = buf[c]
      /\ pc'[p] \in {"allocbuf", "overlap"} /\ CurReq(p).size > buf[b].bcount
  BY <1>1, <1>4 DEF IInv, TypeOK, BreallocGrow, Goto, args, OthersKept
<1>6. ReadsNoMore /\ Has(b, "B_DELWRI") => call[p] \in GrowCalls
  <2>. SUFFICES ASSUME ReadsNoMore, Has(b, "B_DELWRI"), call[p] \notin GrowCalls
                PROVE  FALSE
    OBVIOUS
  <2>1. /\ CurReq(p) \in Request0 /\ call[p] \in ReadCalls
        /\ buf[b].vp = CurReq(p).vp /\ buf[b].blkno = CurReq(p).blkno
    BY <1>1, Resized DEF BlockCalls, ReadCalls, GrowCalls
  <2>2. CurReq(p) \in ReadReqs \cup RaReqs
    BY <2>1 DEF PanicInv, CallBy, ReadCalls, CurReq
  <2>3. CurReq(p).size <= buf[b].bcount
    BY <1>2, <2>1, <2>2 DEF Sane, Covers, ReadsNoMore, Has
  <2>. QED  BY <1>2, <1>5, <2>1, <2>3 DEF BufRec, Request0
<1>7. Sane(h)
  BY <1>2, <1>3 DEF Sane, Whole
<1>8. Growing(b)' <=> Growing(b)
  BY <1>5 DEF Growing
<1>9. BufOK(b)'
  BY <1>2, <1>3, <1>5, <1>6, <1>7, <1>8 DEF BufOK, Has, Sane, Whole, Covers, ReadsNoMore
<1>10. CallBy(p)' /\ HeldBy(p)'
  BY <1>1, <1>2, <1>3, <1>5, KeptOn DEF Writer
<1>. QED  BY <1>1, <1>2, <1>5, <1>9, <1>10, FrameOne

(* allocbuf sets the size of a buffer whose memory is enough.              *)
LEMMA AllocbufFitsPanic ==
    ASSUME IInv, PanicInv, NEW p \in Proc, AllocbufFits(p)
    PROVE  PanicInv'
<1>1. PICK b \in Buf : bp[p] = b
  BY DEF IInv, TypeOK, PcInv, AllocbufFits, At
<1>. DEFINE n == CurReq(p).size
            h == [buf[b] EXCEPT !.bcount = n]
<1>2. /\ buf[b] \in BufRec /\ Sane(buf[b]) /\ BufOK(b) /\ pc[p] = "allocbuf"
      /\ b \notin io
      /\ \A q \in Proc \ {p} : bp[q] # b /\ obp[q] # b
  BY <1>1, OwnFacts DEF PanicInv, BufOK, AllocbufFits, At
<1>3. /\ n \in Nat \ {0} /\ n <= roundup(n) /\ roundup(n) \in Nat
      /\ buf[b].bufsize \in Nat
  BY <1>1, <1>2, Resized, RoundupCovers, RoundupNat DEF Request0, BufRec
<1>4. roundup(n) <= buf[b].bufsize
  BY <1>1, <1>3 DEF AllocbufFits
<1>5. /\ h \in BufRec /\ h.flags = buf[b].flags /\ h.vp = buf[b].vp
      /\ h.blkno = buf[b].blkno /\ h.bcount = n
      /\ h.bufsize = buf[b].bufsize /\ h.queue = buf[b].queue
  BY <1>2, <1>3 DEF BufRec
<1>6. buf' = [buf EXCEPT ![b] = h]
  BY <1>1 DEF AllocbufFits
<1>. HIDE DEF h
<1>7. /\ OthersKept(p) /\ UNCHANGED <<call, req, rareq, bp, obp, ret, io>>
      /\ buf'[b] = h /\ \A c \in Buf \ {b} : buf'[c] = buf[c]
      /\ pc'[p] = "got"
  BY <1>1, <1>6 DEF IInv, TypeOK, AllocbufFits, Goto, args, OthersKept
<1>8. Sane(h)
  <2>1. h.bcount <= h.bufsize
    BY <1>3, <1>4, <1>5
  <2>2. "B_DELWRI" \in h.flags => Whole(h) /\ Covers(h.vp, h.blkno, h.bcount)
    BY <1>1, <1>2, <1>3, <1>5, Resized DEF Has, BlockReq, Whole, Sane
  <2>. QED  BY <1>2, <1>5, <2>1, <2>2 DEF Sane
<1>9. Growing(b)' <=> Growing(b)
  BY <1>7 DEF Growing
<1>10. BufOK(b)'
  BY <1>2, <1>5, <1>7, <1>8, <1>9 DEF BufOK, Has, Sane, Whole, Covers, ReadsNoMore
<1>11. CallBy(p)' /\ HeldBy(p)'
  BY <1>1, <1>2, <1>5, <1>7, KeptOn DEF Writer
<1>. QED  BY <1>1, <1>2, <1>7, <1>10, <1>11, FrameOne

(* realloccg zeroes the new part; binvalfree drops a clean free buffer;    *)
(* a search marks a busy one wanted.                                       *)
LEMMA MarkPanic ==
    ASSUME IInv, PanicInv, NEW p \in Proc,
           \/ ReallocDone(p)
           \/ \E b \in Buf : BinvalfreeInval(p, b)
           \/ \E b \in Buf : OverlapInval(p, b)
           \/ \E b \in Buf : WaitBusy(p, b)
    PROVE  PanicInv'
<1>0. CallBy(p) /\ HeldBy(p)
  BY DEF PanicInv
<1>1. CASE ReallocDone(p)
  <2>1. PICK b \in Buf : bp[p] = b
    BY <1>1 DEF IInv, TypeOK, PcInv, ReallocDone, At
  <2>. DEFINE h == [buf[b] EXCEPT !.flags = @ \cup {"B_DONE"}]
  <2>2. /\ buf[b] \in BufRec /\ Sane(buf[b]) /\ BufOK(b) /\ pc[p] = "got"
        /\ b \notin io
        /\ \A q \in Proc \ {p} : bp[q] # b /\ obp[q] # b
    BY <1>1, <2>1, OwnFacts DEF PanicInv, BufOK, ReallocDone, At
  <2>3. /\ h \in BufRec /\ h.flags = buf[b].flags \cup {"B_DONE"} /\ h.vp = buf[b].vp
        /\ h.blkno = buf[b].blkno /\ h.bcount = buf[b].bcount
    BY <2>2 DEF BufRec, Flag
  <2>4. Sane(h)
    BY <2>2, SaneFlags DEF Flag
  <2>5. buf' = [buf EXCEPT ![b] = h]
    BY <1>1, <2>1 DEF ReallocDone
  <2>. HIDE DEF h
  <2>6. /\ OthersKept(p) /\ UNCHANGED <<call, req, rareq, bp, obp, ret, io>>
        /\ buf'[b] = h /\ \A c \in Buf \ {b} : buf'[c] = buf[c]
        /\ pc'[p] = "hold"
    BY <1>1, <2>5 DEF IInv, TypeOK, ReallocDone, Goto, args, OthersKept
  <2>7. BufOK(b)'
    BY <2>2, <2>3, <2>4, <2>6 DEF BufOK, Has, Sane, Whole, Covers, ReadsNoMore
  <2>8. CallBy(p)' /\ HeldBy(p)'
    BY <1>0, <2>1, <2>2, <2>3, <2>6, KeptOn DEF Writer, HeldBy
  <2>. QED  BY <2>1, <2>2, <2>6, <2>7, <2>8, FrameOne
<1>2. ASSUME NEW b \in Buf, NEW h \in BufRec, Sane(h), "B_DELWRI" \notin h.flags,
             buf[b].queue # "none", \/ buf' = [buf EXCEPT ![b] = h]
                                    \/ buf' = [buf EXCEPT ![b] = Released(h)],
             wchan[p] = NoChan, pc[p] \in {"overlap", "binvalfree"},
             Goto(p, pc[p]), UNCHANGED <<args, bp, obp, wbp, ret, io>>
      PROVE  PanicInv'
  <2>1. PICK k \in {h, Released(h)} : buf' = [buf EXCEPT ![b] = k]
    BY <1>2
  <2>2. Sane(k) /\ "B_DELWRI" \notin k.flags
    BY <1>2, SaneKept
  <2>3. /\ OthersKept(p) /\ UNCHANGED <<pc, call, req, rareq, bp, obp, ret, io>>
        /\ buf'[b] = k /\ \A c \in Buf \ {b} : buf'[c] = buf[c]
    BY <1>2, <2>1 DEF IInv, TypeOK, Goto, args, OthersKept
  <2>4. b \notin io /\ \A q \in Proc : bp[q] # b /\ obp[q] # b
    BY <1>2, FreeFacts
  <2>5. BufOK(b)'
    BY <2>2, <2>3, <2>4 DEF BufOK, Has, Sane, Whole, Covers, ReadsNoMore
  <2>6. /\ bp[p] # NoBuf => bp[p] \in Buf /\ buf'[bp[p]] = buf[bp[p]]
        /\ obp[p] # NoBuf => obp[p] \in Buf /\ buf'[obp[p]] = buf[obp[p]]
    BY <2>3, <2>4 DEF IInv, TypeOK
  <2>7. CallBy(p)' /\ HeldBy(p)'
    BY <1>0, <1>2, <2>3, <2>6
    DEF CallBy, HeldBy, Names, CurReq, Has, BlockReq, Covers, ReadsNoMore, Writer
  <2>. QED  BY <2>3, <2>4, <2>5, <2>7, FrameOne
<1>3. ASSUME NEW b \in Buf, BinvalfreeInval(p, b) PROVE PanicInv'
  <2>. DEFINE g == [buf[b] EXCEPT !.flags = @ \cup {"B_INVAL"}]
              h == brelvp(g)
  <2>1. /\ buf[b] \in BufRec /\ Sane(buf[b]) /\ "B_DELWRI" \notin buf[b].flags
        /\ buf[b].queue # "none" /\ pc[p] = "binvalfree" /\ wchan[p] = NoChan
    BY <1>3 DEF PanicInv, BufOK, IInv, TypeOK, BinvalfreeInval, Has, FreeOf, OnQueue, At
  <2>2. g \in BufRec /\ Sane(g) /\ g.flags = buf[b].flags \cup {"B_INVAL"}
    BY <2>1, SaneFlags DEF Flag, BufRec
  <2>3. ASSUME NEW k \in BufRec, Sane(k), "B_DELWRI" \notin k.flags
        PROVE  /\ brelvp(k) \in BufRec /\ Sane(brelvp(k))
               /\ "B_DELWRI" \notin brelvp(k).flags
    BY <2>3 DEF brelvp, BufRec, Sane
  <2>4. h \in BufRec /\ Sane(h) /\ "B_DELWRI" \notin h.flags
    BY <2>1, <2>2, <2>3
  <2>5. /\ buf' = [buf EXCEPT ![b] = h] /\ Goto(p, "binvalfree")
        /\ UNCHANGED <<args, bp, obp, wbp, ret, io>>
    BY <1>3 DEF BinvalfreeInval
  <2>. HIDE DEF h
  <2>. QED  BY <1>2, <2>1, <2>4, <2>5
<1>4. ASSUME NEW b \in Buf, OverlapInval(p, b) PROVE PanicInv'
  <2>. DEFINE h == [notavail(buf[b]) EXCEPT !.flags = @ \cup {"B_INVAL"}]
  <2>1. /\ buf[b] \in BufRec /\ Sane(buf[b]) /\ "B_DELWRI" \notin buf[b].flags
        /\ buf[b].queue # "none" /\ pc[p] = "overlap" /\ wchan[p] = NoChan
    BY <1>4 DEF PanicInv, BufOK, IInv, FlagInv, TypeOK, OverlapInval, Has, At
  <2>2. notavail(buf[b]) \in BufRec /\ Sane(notavail(buf[b]))
        /\ notavail(buf[b]).flags = buf[b].flags \cup {"B_BUSY"}
    BY <2>1, SaneKept, notavailFacts
  <2>3. h \in BufRec /\ Sane(h) /\ h.flags = buf[b].flags \cup {"B_BUSY", "B_INVAL"}
    BY <2>2, SaneFlags DEF Flag, BufRec
  <2>4. /\ buf' = [buf EXCEPT ![b] = Released(h)] /\ Goto(p, "overlap")
        /\ UNCHANGED <<args, bp, obp, wbp, ret, io>>
    BY <1>4 DEF OverlapInval, brelse
  <2>. HIDE DEF h
  <2>. QED  BY <1>2, <2>1, <2>3, <2>4
<1>5. ASSUME NEW b \in Buf, WaitBusy(p, b) PROVE PanicInv'
  <2>. DEFINE h == [buf[b] EXCEPT !.flags = @ \cup {"B_WANTED"}]
  <2>1. /\ buf[b] \in BufRec /\ Sane(buf[b]) /\ BufOK(b)
        /\ h.flags = buf[b].flags \cup {"B_WANTED"} /\ h.vp = buf[b].vp
        /\ h.blkno = buf[b].blkno /\ h.bcount = buf[b].bcount
    BY DEF PanicInv, BufOK, IInv, TypeOK, BufRec
  <2>2. Sane(h) /\ (Whole(buf[b]) => Whole(h))
    BY <2>1, SaneFlags DEF Flag
  <2>3. buf' = [buf EXCEPT ![b] = h]
    BY <1>5 DEF WaitBusy
  <2>. HIDE DEF h
  <2>4. /\ OthersKept(p) /\ UNCHANGED <<pc, call, req, rareq, bp, obp, ret, io>>
        /\ buf'[b] = h /\ \A c \in Buf \ {b} : buf'[c] = buf[c]
    BY <1>5, <2>3 DEF IInv, TypeOK, WaitBusy, Sleep, args, OthersKept
  <2>5. \A c \in Buf : SameBlock(c)
    BY <2>1, <2>4 DEF SameBlock
  <2>6. Growing(b)' <=> Growing(b)
    BY <2>4 DEF Growing
  <2>7. BufOK(b)'
    BY <2>1, <2>2, <2>4, <2>6 DEF BufOK, Has, Sane, Whole, Covers, ReadsNoMore
  <2>8. /\ bp[p] # NoBuf => SameBlock(bp[p])
        /\ obp[p] # NoBuf => SameBlock(obp[p])
        /\ pc[p] \in {"got", "biowait", "hold"} => bp[p] # NoBuf
    BY <2>5, DistinctConstants DEF IInv, TypeOK, PcInv
  <2>9. CallBy(p)' /\ HeldBy(p)'
    BY <1>0, <2>4, <2>8
    DEF CallBy, HeldBy, Names, CurReq, Has, SameBlock, BlockReq, Covers, ReadsNoMore
  <2>. QED  BY <2>4, <2>5, <2>7, <2>9, FrameOne
<1>. QED  BY <1>1, <1>3, <1>4, <1>5

-----------------------------------------------------------------------------
(* allocbuf's moves of memory between two headers                          *)

(* t is the new header of the buffer in p's hand, k that of the free one.  *)
LEMMA AllocPanic ==
    ASSUME IInv, PanicInv, NEW p \in Proc, NEW a \in Buf, NEW b \in Buf,
           NEW t \in BufRec, NEW h \in BufRec, bp[p] = a, buf[b].queue # "none",
           pc[p] # "biowait",
           buf' = [buf EXCEPT ![a] = t, ![b] = Released(h)],
           Sane(t), t.flags = buf[a].flags, t.vp = buf[a].vp, t.blkno = buf[a].blkno,
           Sane(h), "B_DELWRI" \notin h.flags,
           NEW l \in {"got", "allocbuf"}, Goto(p, l),
           l = "got" => t.bcount = CurReq(p).size,
           UNCHANGED <<args, bp, obp, wbp, ret, io>>
    PROVE  PanicInv'
<1>1. b \notin io /\ \A q \in Proc : bp[q] # b /\ obp[q] # b
  BY FreeFacts
<1>2. a # b /\ a \notin io /\ \A q \in Proc \ {p} : bp[q] # a /\ obp[q] # a
  BY <1>1, OwnFacts
<1>3. /\ OthersKept(p) /\ UNCHANGED <<call, req, rareq, bp, obp, ret, io>>
      /\ buf'[a] = t /\ buf'[b] = Released(h)
      /\ \A c \in Buf \ {a, b} : buf'[c] = buf[c]
      /\ pc'[p] = l
  BY <1>2 DEF IInv, TypeOK, Goto, args, OthersKept
<1>4. BufOK(b)'
  BY <1>1, <1>3, ReleasedOK
<1>5. Growing(a)' <=> Growing(a)
  BY <1>3 DEF Growing
<1>6. BufOK(a)'
  BY <1>2, <1>3, <1>5 DEF PanicInv, BufOK, Has, Sane, Whole, Covers, ReadsNoMore
<1>7. CallBy(p)' /\ HeldBy(p)'
  <2>1. \A c \in Buf \ {a} : buf'[c] = buf[c] \/ \A q \in Proc : bp[q] # c /\ obp[q] # c
    BY <1>1, <1>3
  <2>2. /\ buf'[a].vp = buf[a].vp /\ buf'[a].blkno = buf[a].blkno
        /\ "B_DELWRI" \in buf'[a].flags => "B_DELWRI" \in buf[a].flags
        /\ pc'[p] \in {"got", "biowait", "hold"} => buf'[a].bcount = CurReq(p).size
        /\ pc'[p] \notin Writer \cup {"getblk", "getnewbuf", "rahead", "ralast", "biowait"}
    BY <1>3 DEF Writer
  <2>. QED  BY <1>3, <2>1, <2>2, KeptOn
<1>. DEFINE S == {a, b}
<1>8. /\ S \in SUBSET Buf /\ \A c \in Buf \ S : buf'[c] = buf[c]
      /\ \A c \in S : SameBlock(c) \/ \A q \in Proc \ {p} : bp[q] # c /\ obp[q] # c
      /\ \A c \in S : BufOK(c)'
      /\ io' \subseteq io \cup S
  BY <1>1, <1>2, <1>3, <1>4, <1>6
<1>. HIDE DEF S
<1>. QED  BY <1>3, <1>7, <1>8, Frame

(* allocbuf takes memory from a free buffer, or gives some to an empty     *)
(* header.                                                                 *)
LEMMA AllocbufPanic ==
    ASSUME IInv, PanicInv, NEW p \in Proc, NEW b \in Buf,
           AllocbufTake(p, b) \/ AllocbufShrink(p, b)
    PROVE  PanicInv'
<1>1. PICK a \in Buf : bp[p] = a
  BY DEF IInv, TypeOK, PcInv, AllocbufTake, AllocbufShrink, At
<1>. DEFINE n == CurReq(p).size
<1>2. /\ buf[a] \in BufRec /\ Sane(buf[a]) /\ buf[a].bufsize \in Nat /\ buf[a].bcount \in Nat
      /\ buf[b] \in BufRec /\ Sane(buf[b]) /\ buf[b].bufsize \in Nat /\ buf[b].bcount \in Nat
  BY DEF PanicInv, BufOK, IInv, TypeOK, BufRec
<1>3. n \in Nat \ {0} /\ n <= roundup(n) /\ roundup(n) \in Nat
  BY <1>1, Resized, RoundupCovers, RoundupNat DEF Request0
<1>4. CASE AllocbufTake(p, b)
  <2>. DEFINE need == roundup(n) - buf[a].bufsize
              take == IF need >= buf[b].bufsize THEN buf[b].bufsize ELSE need
              left == buf[b].bufsize - take
              h    == [NewBuf(b) EXCEPT
                         !.bufsize = left,
                         !.bcount = IF @ > left THEN left ELSE @,
                         !.flags = IF left = 0 THEN @ \cup {"B_INVAL"} ELSE @]
              t    == [buf[a] EXCEPT !.bufsize = @ + take]
  <2>0. need \in Int /\ take \in Int /\ left \in Nat
    BY <1>2, <1>3
  <2>1. pc[p] = "getnewbuf" /\ buf[b].queue # "none" /\ Goto(p, "allocbuf")
        /\ UNCHANGED <<args, bp, obp, wbp, ret, io>>
    BY <1>4 DEF AllocbufTake, GetnewbufTake, NewBufChoices, OnQueue, At
  <2>2. buf' = [buf EXCEPT ![a].bufsize = @ + take, ![b] = Released(h)]
    BY <1>1, <1>4 DEF AllocbufTake
  <2>3. NewBuf(b) \in BufRec /\ NewBuf(b).flags = {"B_BUSY"} /\ NewBuf(b).queue = "none"
    BY NewBufFacts DEF IInv, TypeOK
  <2>4. buf[a].bcount <= roundup(n)
    <3>1. HeldBy(p) /\ bp[p] # NoBuf
      BY <1>1, DistinctConstants DEF PanicInv
    <3>. QED  BY <1>1, <2>1, <3>1 DEF HeldBy
  <2>5. buf[a].bcount <= buf[a].bufsize + take
    BY <1>2, <1>3, <2>4 DEF Sane
  <2>6. buf[a].bufsize + take \in Nat
    BY <1>2, <2>0, <2>5
  <2>. HIDE DEF take, left
  <2>7. /\ h \in BufRec /\ h.bufsize = left /\ h.bcount <= left
        /\ h.queue = "none" /\ h.flags \subseteq {"B_BUSY", "B_INVAL"}
    <3>. DEFINE n0 == NewBuf(b)
                x == IF n0.bcount > left THEN left ELSE n0.bcount
                f == IF left = 0 THEN n0.flags \cup {"B_INVAL"} ELSE n0.flags
    <3>1. n0 \in BufRec /\ n0.bcount \in Nat
      BY <2>3 DEF BufRec
    <3>2. x \in Nat /\ x <= left
      BY <2>0, <3>1
    <3>3. f \subseteq {"B_BUSY", "B_INVAL"} /\ f \subseteq Flag
      BY <2>3 DEF Flag
    <3>4. h = [n0 EXCEPT !.bufsize = left, !.bcount = x, !.flags = f]
      OBVIOUS
    <3>. HIDE DEF n0, x, f, h
    <3>5. n0.queue = "none"
      BY <2>3 DEF n0
    <3>. QED  BY <2>0, <3>1, <3>2, <3>3, <3>4, <3>5 DEF BufRec
  <2>8. /\ t \in BufRec /\ t.flags = buf[a].flags /\ t.vp = buf[a].vp
        /\ t.blkno = buf[a].blkno /\ t.bcount = buf[a].bcount /\ t.queue = buf[a].queue
        /\ t.bufsize = buf[a].bufsize + take
    BY <1>2, <2>6 DEF BufRec
  <2>. HIDE DEF h
  <2>9. buf' = [buf EXCEPT ![a] = t, ![b] = Released(h)]
    BY <2>2
  <2>. HIDE DEF t
  <2>10. Sane(h) /\ "B_DELWRI" \notin h.flags
    BY <2>7 DEF Sane
  <2>11. buf[a].queue = "none"
    BY <1>1 DEF IInv, OwnInv, FlagInv, Owns
  <2>12. Sane(t)
    BY <1>2, <2>5, <2>8, <2>11 DEF Sane, Whole
  <2>. QED  BY <1>1, <2>1, <2>7, <2>8, <2>9, <2>10, <2>12, AllocPanic
<1>5. CASE AllocbufShrink(p, b)
  <2>. DEFINE h == [notavail(buf[b]) EXCEPT
                      !.bufsize = buf[a].bufsize - roundup(n),
                      !.flags = @ \cup {"B_INVAL"}, !.bcount = 0]
              t == [buf[a] EXCEPT !.bufsize = roundup(n), !.bcount = n]
  <2>1. /\ buf' = [buf EXCEPT ![a].bufsize = roundup(n), ![a].bcount = n,
                              ![b] = Released(h)]
        /\ roundup(n) < buf[a].bufsize
    BY <1>1, <1>5 DEF AllocbufShrink, CutOff
  <2>2. /\ pc[p] = "allocbuf" /\ buf[b].queue = "EMPTY" /\ Goto(p, "got")
        /\ UNCHANGED <<args, bp, obp, wbp, ret, io>>
    BY <1>5 DEF AllocbufShrink, OnQueue, At
  <2>3. buf[a].bufsize - roundup(n) \in Nat
    BY <1>2, <1>3, <2>1
  <2>4. "B_DELWRI" \notin buf[b].flags
    BY <1>2, <2>2 DEF Sane, Whole
  <2>5. notavail(buf[b]) \in BufRec /\ notavail(buf[b]).flags = buf[b].flags \cup {"B_BUSY"}
        /\ notavail(buf[b]).queue = "none"
    BY <1>2, notavailFacts
  <2>6. /\ h \in BufRec /\ h.flags = buf[b].flags \cup {"B_BUSY", "B_INVAL"}
        /\ h.bcount = 0 /\ h.bufsize = buf[a].bufsize - roundup(n) /\ h.queue = "none"
    BY <2>3, <2>5 DEF BufRec, Flag
  <2>7. /\ t \in BufRec /\ t.flags = buf[a].flags /\ t.vp = buf[a].vp
        /\ t.blkno = buf[a].blkno /\ t.bcount = n /\ t.queue = buf[a].queue
        /\ t.bufsize = roundup(n)
    BY <1>2, <1>3 DEF BufRec
  <2>. HIDE DEF h
  <2>8. buf' = [buf EXCEPT ![a] = t, ![b] = Released(h)]
    BY <2>1
  <2>. HIDE DEF t
  <2>9. Sane(h) /\ "B_DELWRI" \notin h.flags
    BY <1>2, <2>3, <2>4, <2>6 DEF Sane
  <2>10. buf[a].queue = "none"
    BY <1>1 DEF IInv, OwnInv, FlagInv, Owns
  <2>11. "B_DELWRI" \in t.flags => Whole(t) /\ Covers(t.vp, t.blkno, t.bcount)
    BY <1>1, <1>2, <1>3, <2>7, Resized DEF Has, BlockReq, Whole, Sane
  <2>12. Sane(t)
    BY <1>2, <1>3, <2>7, <2>10, <2>11 DEF Sane
  <2>. QED  BY <1>1, <2>2, <2>6, <2>7, <2>8, <2>9, <2>12, AllocPanic
<1>. QED  BY <1>4, <1>5

-----------------------------------------------------------------------------
(* Steps that hand an owned buffer to the driver                           *)

(* What getblk returned, and the buffer that brealloc or a client writes,  *)
(* is whole; a read is started on a clean buffer where it may fail.        *)
LEMMA StartPanic ==
    ASSUME IInv, PanicInv, NEW p \in Proc,
           \/ BreadStart(p) \/ (ReadAheadGot(p) /\ ~Has(bp[p], "B_DONE")) \/ BreadaStart(p)
    PROVE  PanicInv'
<1>0. CallBy(p) /\ HeldBy(p)
  BY DEF PanicInv
<1>1. PICK b \in Buf : bp[p] = b
  BY DEF IInv, TypeOK, PcInv, BreadStart, ReadAheadGot, BreadaStart, At
<1>2. /\ buf[b] \in BufRec /\ Sane(buf[b]) /\ BufOK(b) /\ pc[p] = "got"
      /\ Growing(b) <=> call[p] \in GrowCalls
      /\ b \notin io /\ b # NoBuf
      /\ \A q \in Proc \ {p} : bp[q] # b /\ obp[q] # b
      /\ call[p] \in ReadCalls
  BY <1>1, OwnFacts, DistinctConstants
  DEF PanicInv, BufOK, BreadStart, ReadAheadGot, BreadaStart, At, ReadCalls
<1>3. /\ CurReq(p) \in Request /\ buf[b].vp = CurReq(p).vp
      /\ buf[b].blkno = CurReq(p).blkno /\ buf[b].bcount = CurReq(p).size
  BY <1>0, <1>1, <1>2, ConstantTypes DEF CallBy, HeldBy, Names, CurReq, ReadCalls
<1>4. Whole(buf[b])
  BY <1>3, DistinctConstants DEF Whole, Request
<1>5. ~Has(b, "B_DONE") => ~(ReadsNoMore /\ Has(b, "B_DELWRI"))
  BY <1>2 DEF BufOK, GrowCalls, ReadCalls
<1>6. ASSUME NEW x \in SUBSET {"B_READ", "B_ASYNC"}, ~Has(b, "B_DONE"),
             buf' = [buf EXCEPT ![b] = [buf[b] EXCEPT !.flags = @ \cup x]]
      PROVE  /\ BufOK(b)' /\ SameBlock(b) /\ \A c \in Buf \ {b} : buf'[c] = buf[c]
  <2>. DEFINE h == [buf[b] EXCEPT !.flags = @ \cup x]
  <2>1. Sane(h) /\ Whole(h)
    BY <1>2, <1>4, SaneFlags DEF Flag
  <2>2. /\ h.flags = buf[b].flags \cup x /\ h.vp = buf[b].vp
        /\ h.blkno = buf[b].blkno /\ h.bcount = buf[b].bcount
    BY <1>2 DEF BufRec
  <2>. HIDE DEF h
  <2>3. buf'[b] = h /\ \A c \in Buf \ {b} : buf'[c] = buf[c]
    BY <1>6 DEF IInv, TypeOK, h
  <2>4. "B_DELWRI" \in h.flags <=> "B_DELWRI" \in buf[b].flags
    BY <2>2
  <2>5. BufOK(b)'
    BY <1>5, <1>6, <2>1, <2>3, <2>4 DEF BufOK, Has, Sane, Whole, Covers, ReadsNoMore
  <2>. QED  BY <2>2, <2>3, <2>4, <2>5 DEF SameBlock
<1>7. CASE BreadStart(p)
  <2>1. /\ OthersKept(p) /\ UNCHANGED <<call, req, rareq, bp, obp, ret>>
        /\ io' = io \cup {b} /\ pc'[p] = "biowait" /\ call[p] = "bread" /\ ~Has(b, "B_DONE")
    BY <1>1, <1>7 DEF IInv, TypeOK, BreadStart, Strategy, Goto, args, OthersKept
  <2>2. buf' = [buf EXCEPT ![b] = [buf[b] EXCEPT !.flags = @ \cup {"B_READ"}]]
    BY <1>1, <1>7 DEF BreadStart, Strategy, Reading
  <2>3. BufOK(b)' /\ SameBlock(b) /\ \A c \in Buf \ {b} : buf'[c] = buf[c]
    BY <1>6, <2>1, <2>2
  <2>4. CallBy(p)' /\ HeldBy(p)'
    BY <1>1, <1>3, <2>1, <2>3, KeptOn DEF Writer, SameBlock
  <2>. QED  BY <1>1, <2>1, <2>3, <2>4, FrameOne
<1>8. CASE BreadaStart(p)
  <2>1. /\ OthersKept(p) /\ UNCHANGED <<call, req, rareq, ret>>
        /\ pc'[p] = "rahead" /\ call[p] = "breada" /\ bp'[p] = NoBuf /\ obp'[p] = b
        /\ io' \subseteq io \cup {b}
    BY <1>1, <1>8 DEF IInv, TypeOK, BreadaStart, Strategy, Goto, args, OthersKept
  <2>2. \/ buf' = buf /\ io' = io
        \/ /\ buf' = [buf EXCEPT ![b] = [buf[b] EXCEPT !.flags = @ \cup {"B_READ"}]]
           /\ ~Has(b, "B_DONE")
    BY <1>1, <1>8 DEF BreadaStart, Strategy, Reading
  <2>3. CASE buf' = buf /\ io' = io
    <3>1. ~Growing(b) /\ BufOK(b)'
      BY <1>2, <2>3 DEF ReadCalls, GrowCalls, BufOK, Has, Sane, Whole, Covers, ReadsNoMore
    <3>2. CallBy(p)'
      BY <1>0, <2>1 DEF CallBy, Writer, ReadCalls, GrowCalls
    <3>. QED  BY <1>1, <1>3, <2>1, <2>3, <3>1, <3>2, GivenUp DEF CurReq
  <2>4. CASE /\ buf' = [buf EXCEPT ![b] = [buf[b] EXCEPT !.flags = @ \cup {"B_READ"}]]
             /\ ~Has(b, "B_DONE")
    <3>1. BufOK(b)' /\ SameBlock(b) /\ \A c \in Buf \ {b} : buf'[c] = buf[c]
      BY <1>6, <2>4
    <3>2. CallBy(p)'
      BY <1>0, <2>1 DEF CallBy, Writer, ReadCalls, GrowCalls
    <3>. QED  BY <1>1, <1>3, <2>1, <3>1, <3>2, GivenUp DEF CurReq, SameBlock
  <2>. QED  BY <2>2, <2>3, <2>4
<1>9. CASE ReadAheadGot(p) /\ ~Has(bp[p], "B_DONE")
  <2>1. /\ OthersKept(p) /\ UNCHANGED <<req, rareq, obp, ret>>
        /\ pc'[p] = "ralast" /\ call[p] = "readahead" /\ call'[p] = "breada"
        /\ bp'[p] = NoBuf /\ io' = io \cup {b} /\ ~Has(b, "B_DONE")
    BY <1>1, <1>9 DEF IInv, TypeOK, ReadAheadGot, Strategy, Goto, OthersKept
  <2>2. buf' = [buf EXCEPT ![b] = [buf[b] EXCEPT !.flags = @ \cup {"B_READ", "B_ASYNC"}]]
    BY <1>1, <1>9 DEF ReadAheadGot, Strategy, ReadingAhead
  <2>3. BufOK(b)' /\ \A c \in Buf \ {b} : buf'[c] = buf[c]
    BY <1>6, <2>1, <2>2
  <2>4. CallBy(p)'
    BY <1>0, <2>1 DEF CallBy, Writer, ReadCalls, GrowCalls
  <2>. QED  BY <1>1, <2>1, <2>3, <2>4, GivenUp
<1>. QED  BY <1>7, <1>8, <1>9

(* The writes of an owned buffer: brealloc's before it shrinks a dirty one *)
(* and the client's.                                                       *)
LEMMA WritePanic ==
    ASSUME IInv, PanicInv, NEW p \in Proc,
           \/ BreallocWrite(p)
           \/ \E extra \in WriteFlags : Bwrite(p, extra)
    PROVE  PanicInv'
<1>0. CallBy(p) /\ HeldBy(p)
  BY DEF PanicInv
<1>1. PICK b \in Buf : bp[p] = b
  BY DEF IInv, TypeOK, PcInv, BreallocWrite, Bwrite, Writable, At
<1>2. buf[b] \in BufRec /\ Sane(buf[b]) /\ b # NoBuf
  BY DistinctConstants DEF PanicInv, BufOK, IInv, TypeOK
<1>3. ASSUME NEW h \in BufRec, Sane(h), Whole(h), NEW l \in {"getblk", "idle"},
             bwrite(p, b, h, l), bp' = [bp EXCEPT ![p] = NoBuf], UNCHANGED obp,
             \A q \in Proc \ {p} : /\ call'[q] = call[q] /\ req'[q] = req[q]
                                    /\ rareq'[q] = rareq[q],
             \/ l = "getblk" /\ UNCHANGED args /\ call[p] \in BlockCalls
             \/ l = "idle" /\ call'[p] = "none" /\ obp[p] = NoBuf
      PROVE  PanicInv'
  <2>1. /\ buf'[b] = Writing(h) /\ \A c \in Buf \ {b} : buf'[c] = buf[c]
        /\ io' = io \cup {b}
    BY <1>3 DEF IInv, TypeOK, bwrite, Strategy
  <2>2. /\ OthersKept(p) /\ bp'[p] = NoBuf /\ obp'[p] = obp[p]
        /\ \/ pc'[p] = l
           \/ pc'[p] \in Writer /\ ret'[p] = l
    BY <1>3 DEF IInv, TypeOK, bwrite, Goto, OthersKept, Writer
  <2>3. BufOK(b)'
    BY <1>3, <2>1, WrittenOK
  <2>4. CallBy(p)'
    BY <1>0, <1>3, <2>2
    DEF CallBy, Writer, ReadCalls, GrowCalls, BlockCalls, BlockReq, Covers, ReadsNoMore, args
  <2>5. pc'[p] \notin {"got", "biowait", "hold"}
    BY <2>2 DEF Writer
  <2>. QED  BY <1>1, <1>3, <2>1, <2>2, <2>3, <2>4, <2>5, GivenUp DEF args
<1>4. CASE BreallocWrite(p)
  <2>1. /\ bwrite(p, b, buf[b], "getblk") /\ Has(b, "B_DELWRI")
        /\ bp' = [bp EXCEPT ![p] = NoBuf] /\ UNCHANGED <<args, obp>>
    BY <1>1, <1>4 DEF BreallocWrite
  <2>2. Whole(buf[b]) /\ call[p] \in BlockCalls
    BY <1>1, <1>2, <2>1, Resized DEF Sane, Has
  <2>. QED  BY <1>2, <1>3, <2>1, <2>2 DEF args
<1>5. ASSUME NEW extra \in WriteFlags, Bwrite(p, extra) PROVE PanicInv'
  <2>. DEFINE h == [buf[b] EXCEPT !.flags = @ \cup extra]
  <2>1. /\ bwrite(p, b, h, "idle") /\ pc[p] = "hold"
        /\ call[p] \in {"bread", "getblk", "realloc"}
        /\ bp' = [bp EXCEPT ![p] = NoBuf] /\ UNCHANGED obp /\ Done(p)
    BY <1>1, <1>5 DEF Bwrite, Writable, Give, At
  <2>2. /\ call'[p] = "none" /\ obp[p] = NoBuf
        /\ \A q \in Proc \ {p} : /\ call'[q] = call[q] /\ req'[q] = req[q]
                                  /\ rareq'[q] = rareq[q]
    BY <2>1 DEF IInv, TypeOK, PcInv, Done
  <2>3. extra \in SUBSET Flag /\ "B_DELWRI" \notin extra /\ "B_ERROR" \notin extra
    BY ConstantTypes DEF Flag
  <2>4. /\ req[p].vp \in Vnode /\ req[p].size \in Nat \ {0}
        /\ buf[b].vp = req[p].vp /\ buf[b].bcount = req[p].size
    BY <1>0, <1>1, <1>2, <2>1, WorkloadReqs
    DEF IInv, TypeOK, Request0, CallBy, HeldBy, Names, CurReq, ReadCalls, GrowCalls, BlockReq
  <2>5. Whole(buf[b])
    BY <2>4, DistinctConstants DEF Whole
  <2>6. h \in BufRec /\ Sane(h) /\ Whole(h)
    BY <1>2, <2>3, <2>5, SaneFlags
  <2>. HIDE DEF h
  <2>. QED  BY <1>3, <2>1, <2>2, <2>6
<1>. QED  BY <1>4, <1>5

-----------------------------------------------------------------------------
(* The disk interrupt, and the theorem                                     *)

(* A transfer that fails was none of a dirty buffer.                       *)
LEMMA BiodonePanic ==
    ASSUME IInv, PanicInv, CleanIo,
           NEW b \in Buf, NEW err \in BOOLEAN, Biodone(b, err)
    PROVE  PanicInv'
<1>. DEFINE h == [buf[b] EXCEPT !.flags =
                    @ \cup {"B_DONE"} \cup (IF err THEN {"B_ERROR"} ELSE {})]
            g == [h EXCEPT !.flags = @ \ {"B_WANTED"}]
<1>1. /\ buf[b] \in BufRec /\ Sane(buf[b]) /\ BufOK(b) /\ b \in io
      /\ err => IOErrors
  BY DEF PanicInv, BufOK, IInv, TypeOK, Biodone
<1>2. /\ h \in BufRec /\ h.vp = buf[b].vp /\ h.blkno = buf[b].blkno
      /\ h.bcount = buf[b].bcount /\ h.bufsize = buf[b].bufsize /\ h.queue = buf[b].queue
      /\ h.flags = buf[b].flags \cup {"B_DONE"} \cup (IF err THEN {"B_ERROR"} ELSE {})
  BY <1>1 DEF BufRec, Flag
<1>3. /\ g \in BufRec /\ g.vp = h.vp /\ g.blkno = h.blkno
      /\ g.bcount = h.bcount /\ g.bufsize = h.bufsize /\ g.queue = h.queue
      /\ g.flags = h.flags \ {"B_WANTED"}
  BY <1>2 DEF BufRec
<1>4. /\ io' = io \ {b} /\ UNCHANGED <<cpu, pc, args, bp, obp, wbp, ret>>
      /\ IF "B_ASYNC" \in h.flags THEN buf' = [buf EXCEPT ![b] = Released(h)]
                                  ELSE buf' = [buf EXCEPT ![b] = g]
  BY DEF Biodone, brelse
<1>. HIDE DEF h, g
<1>5. Sane(h) /\ Sane(g)
  <2>1. err => "B_DELWRI" \notin buf[b].flags
    BY <1>1 DEF CleanIo, Has
  <2>2. Sane(h)
    BY <1>1, <1>2, <2>1 DEF Sane, Whole
  <2>. QED  BY <1>3, <2>2 DEF Sane, Whole
<1>6. OthersKept(NoProc) /\ NoProc \notin Proc
  BY <1>4, DistinctConstants DEF OthersKept, args
<1>7. \A c \in Buf \ {b} : buf'[c] = buf[c]
  BY <1>4 DEF IInv, TypeOK
<1>8. CASE "B_ASYNC" \in h.flags
  <2>1. buf'[b] = Released(h)
    BY <1>4, <1>8 DEF IInv, TypeOK
  <2>2. BufOK(b)'
    BY <1>2, <1>4, <1>5, <2>1, ReleasedOK
  <2>3. Has(b, "B_ASYNC")
    BY <1>2, <1>8 DEF Has
  <2>4. \A q \in Proc : bp[q] # b /\ obp[q] # b
    BY <2>3 DEF IInv, OwnInv, Owns
  <2>. QED  BY <1>4, <1>6, <1>7, <2>2, <2>4, FrameOne
<1>9. CASE "B_ASYNC" \notin h.flags
  <2>1. buf'[b] = g
    BY <1>4, <1>9 DEF IInv, TypeOK
  <2>2. "B_DONE" \in g.flags /\ SameBlock(b)
    BY <1>2, <1>3, <2>1 DEF SameBlock
  <2>3. BufOK(b)'
    BY <1>4, <1>5, <2>1, <2>2 DEF BufOK, Has, Sane, Whole, Covers, ReadsNoMore
  <2>. QED  BY <1>4, <1>6, <1>7, <2>2, <2>3, FrameOne
<1>. QED  BY <1>8, <1>9

(* PanicInv is inductive, relative to IInv and CleanIo.                    *)
THEOREM NextPanic == IInv /\ PanicInv /\ CleanIo /\ [Next]_vars => PanicInv'
<1>. SUFFICES ASSUME IInv, PanicInv, CleanIo, [Next]_vars PROVE PanicInv'
  OBVIOUS
<1>1. ASSUME NEW p \in Proc, NewCall(p) PROVE PanicInv'
  BY <1>1, NewCallPanic
<1>2. ASSUME NEW p \in Proc, ClientStep(p) PROVE PanicInv'
  BY <1>2, ReleasePanic, WritePanic, ReallocPanic DEF ClientStep
<1>3. ASSUME NEW p \in Proc, KernelStep(p) PROVE PanicInv'
  <2>1. ASSUME NEW b \in Buf,
               \/ WaitBusy(p, b) \/ WriteDirty(p, b) \/ GetblkHit(p, b)
               \/ GetnewbufPush(p, b) \/ GetblkNew(p, b) \/ GeteblkNew(p, b)
               \/ AllocbufTake(p, b) \/ AllocbufShrink(p, b)
               \/ OverlapInval(p, b) \/ FlushPush(p, b) \/ BinvalfreeInval(p, b)
        PROVE  PanicInv'
    BY <2>1, MarkPanic, AcquirePanic, AllocbufPanic
  <2>2. CASE ReadAheadGot(p)
    BY <2>2, StartPanic, ReleasePanic
  <2>. QED
    BY <1>3, <2>1, <2>2, MovePanic, BreallocGrowPanic, AllocbufFitsPanic, MarkPanic,
       StartPanic, WritePanic, WriterPanic
    DEF KernelStep
<1>4. CASE Interrupt
  BY <1>4, BiodonePanic DEF Interrupt
<1>5. CASE UNCHANGED vars
  BY <1>5
  DEF vars, PanicInv, CallBy, HeldBy, BufOK, Sane, Whole, Names, CurReq, Has, Growing,
      BlockReq, Covers, ReadsNoMore
<1>. QED  BY <1>1, <1>2, <1>3, <1>4, <1>5 DEF Next

(* For any number of processes, buffers and blocks: the driver is only     *)
(* given whole, unfinished transfers, so that bread, breada, bwrite and    *)
(* biodone do not panic, if no client reads more of a block than others    *)
(* write of it, or the driver reports no errors.                           *)
THEOREM NoPanic == ASSUME ReadsWithin PROVE Spec => []PanicFree
<1>1. IInv /\ PanicInv => PanicFree
  BY DEF IInv, TypeOK, FlagInv, PanicInv, BufOK, Sane, Whole, PanicFree, BufRec
<1>2. IInv /\ PanicInv => CleanIo
  BY DEF IInv, TypeOK, PanicInv, BufOK, CleanIo, ReadsWithin
<1>. QED  BY Inductive, InitPanic, NextPanic, <1>1, <1>2, PTL DEF Spec

-----------------------------------------------------------------------------
(* allocbuf's moves of memory between headers                              *)

Sizes == [b \in Buf |-> buf[b].bufsize]

(* The hypothesis: binit shares out finitely many fragments.               *)
FiniteMemory == IsFiniteSet(Memory(BufSize0))

(* A header on BQ_EMPTY has no memory, which allocbuf relies on when it    *)
(* gives such a header what a shrinking buffer has too much.               *)
EmptyInv == \A b \in Buf : buf[b].queue = "EMPTY" => buf[b].bufsize = 0

MemInv == MemoryConserved /\ IsFiniteSet(Memory(Sizes)) /\ EmptyInv

(* A fragment of memory is a header and a place in it.                     *)
LEMMA MemoryFacts ==
    ASSUME NEW f, NEW x
    PROVE  x \in Memory(f) <=> \E b \in Buf : \E k \in 1 .. f[b] : x = <<b, k>>
BY DEF Memory

(* Cutting one share from n + k fragments to n takes k from the whole.     *)
LEMMA ShareCut ==
    ASSUME NEW f \in [Buf -> Nat], NEW h \in [Buf -> Nat], NEW b \in Buf,
           NEW k \in Nat, f[b] = h[b] + k, \A c \in Buf \ {b} : f[c] = h[c],
           IsFiniteSet(Memory(f)) \/ IsFiniteSet(Memory(h))
    PROVE  /\ IsFiniteSet(Memory(f)) /\ IsFiniteSet(Memory(h))
           /\ Cardinality(Memory(h)) \in Nat
           /\ Cardinality(Memory(f)) = Cardinality(Memory(h)) + k
<1>1. PICK n \in Nat : n = h[b]
  OBVIOUS
<1>. DEFINE Part == {b} \X (n + 1 .. n + k)
<1>2. IsFiniteSet(Part) /\ Cardinality(Part) = k
  <2>1. IsFiniteSet({b}) /\ Cardinality({b}) = 1
    BY FS_Singleton
  <2>2. IsFiniteSet(n + 1 .. n + k)
    BY FS_Interval
  <2>3. Cardinality(n + 1 .. n + k) = IF n + 1 > n + k THEN 0 ELSE (n + k) - (n + 1) + 1
    BY FS_Interval
  <2>4. Cardinality(n + 1 .. n + k) = k
    BY <2>3
  <2>5. /\ IsFiniteSet(Part)
        /\ Cardinality(Part) = Cardinality({b}) * Cardinality(n + 1 .. n + k)
    BY <2>1, <2>2, FS_Product, Zenon
  <2>6. Cardinality(Part) = 1 * k
    BY <2>1, <2>4, <2>5
  <2>. QED  BY <2>5, <2>6
<1>3. \A c, j : <<c, j>> \in Part <=> c = b /\ j \in n + 1 .. n + k
  OBVIOUS
<1>4. \A x \in Part : \E j \in n + 1 .. n + k : x = <<b, j>>
  OBVIOUS
<1>. HIDE DEF Part
<1>5. \A c \in Buf : \A j : j \in 1 .. f[c] <=> j \in 1 .. h[c] \/ <<c, j>> \in Part
  <2>. SUFFICES ASSUME NEW c \in Buf, NEW j
                PROVE  j \in 1 .. f[c] <=> j \in 1 .. h[c] \/ <<c, j>> \in Part
    OBVIOUS
  <2>1. CASE c = b  BY <1>1, <1>3, <2>1
  <2>2. CASE c # b  BY <1>3, <2>2
  <2>. QED  BY <2>1, <2>2
<1>6. Memory(h) \cap Part = {}
  <2>. SUFFICES ASSUME NEW x \in Memory(h), x \in Part PROVE FALSE
    OBVIOUS
  <2>1. PICK c \in Buf : \E j \in 1 .. h[c] : x = <<c, j>>
    BY MemoryFacts
  <2>2. PICK j \in 1 .. h[c] : x = <<c, j>>
    BY <2>1
  <2>3. c = b /\ j \in n + 1 .. n + k
    BY <1>3, <2>2
  <2>. QED  BY <1>1, <2>2, <2>3
<1>7. Memory(f) = Memory(h) \cup Part
  <2>1. ASSUME NEW x \in Memory(f) PROVE x \in Memory(h) \cup Part
    <3>1. PICK c \in Buf : \E j \in 1 .. f[c] : x = <<c, j>>
      BY MemoryFacts
    <3>2. PICK j \in 1 .. f[c] : x = <<c, j>>
      BY <3>1
    <3>3. j \in 1 .. h[c] \/ x \in Part
      BY <1>5, <3>2
    <3>. QED  BY <3>2, <3>3, MemoryFacts
  <2>2. ASSUME NEW x \in Memory(h) PROVE x \in Memory(f)
    <3>1. PICK c \in Buf : \E j \in 1 .. h[c] : x = <<c, j>>
      BY MemoryFacts
    <3>2. PICK j \in 1 .. h[c] : x = <<c, j>>
      BY <3>1
    <3>3. j \in 1 .. f[c]
      BY <1>5, <3>2
    <3>. QED  BY <3>2, <3>3, MemoryFacts
  <2>3. ASSUME NEW x \in Part PROVE x \in Memory(f)
    <3>1. PICK j \in n + 1 .. n + k : x = <<b, j>>
      BY <1>4
    <3>2. j \in 1 .. f[b]
      BY <1>5, <3>1
    <3>. QED  BY <3>1, <3>2, MemoryFacts
  <2>. QED  BY <2>1, <2>2, <2>3
<1>8. IsFiniteSet(Memory(h))
  <2>1. IsFiniteSet(Memory(f)) => IsFiniteSet(Memory(h))
    BY <1>7, FS_Subset
  <2>. QED  BY <2>1
<1>9. /\ IsFiniteSet(Memory(f))
      /\ Cardinality(Memory(f)) = Cardinality(Memory(h)) + Cardinality(Part)
                                  - Cardinality(Memory(h) \cap Part)
  BY <1>2, <1>7, <1>8, FS_Union
<1>10. Cardinality(Memory(h) \cap Part) = 0
  BY <1>6, FS_EmptySet
<1>11. Cardinality(Memory(h)) \in Nat
  BY <1>8, FS_CardinalityType
<1>. QED  BY <1>2, <1>8, <1>9, <1>10, <1>11

(* Moving memory from one header to another leaves the whole as it was.    *)
LEMMA SharesMoved ==
    ASSUME NEW f \in [Buf -> Nat], NEW g \in [Buf -> Nat],
           NEW b \in Buf, NEW t \in Buf, b # t, f[b] + f[t] = g[b] + g[t],
           \A c \in Buf \ {b, t} : f[c] = g[c], IsFiniteSet(Memory(f))
    PROVE  IsFiniteSet(Memory(g)) /\ Cardinality(Memory(g)) = Cardinality(Memory(f))
<1>1. ASSUME NEW x \in Buf, NEW y \in Buf, x # y, g[x] <= f[x],
             f[x] + f[y] = g[x] + g[y], \A c \in Buf \ {x, y} : f[c] = g[c]
      PROVE  IsFiniteSet(Memory(g)) /\ Cardinality(Memory(g)) = Cardinality(Memory(f))
  <2>1. PICK k \in Nat : f[x] = g[x] + k /\ g[y] = f[y] + k
    <3>1. f[x] - g[x] \in Nat /\ f[x] = g[x] + (f[x] - g[x]) /\ g[y] = f[y] + (f[x] - g[x])
      BY <1>1
    <3>. QED  BY <3>1
  <2>2. PICK m \in [Buf -> Nat] : m = [f EXCEPT ![x] = g[x]]
    OBVIOUS
  <2>3. /\ m[x] = g[x] /\ m[y] = f[y] /\ \A c \in Buf \ {x} : f[c] = m[c]
        /\ \A c \in Buf \ {y} : g[c] = m[c]
    BY <1>1, <2>2
  <2>4. /\ IsFiniteSet(Memory(m)) /\ Cardinality(Memory(m)) \in Nat
        /\ Cardinality(Memory(f)) = Cardinality(Memory(m)) + k
    BY <2>1, <2>3, ShareCut
  <2>5. IsFiniteSet(Memory(g)) /\ Cardinality(Memory(g)) = Cardinality(Memory(m)) + k
    BY <2>1, <2>3, <2>4, ShareCut
  <2>. QED  BY <2>4, <2>5
<1>2. CASE g[b] <= f[b]
  BY <1>1, <1>2
<1>3. CASE g[t] <= f[t]
  BY <1>1, <1>3
<1>4. g[b] <= f[b] \/ g[t] <= f[t]
  OBVIOUS
<1>. QED  BY <1>2, <1>3, <1>4

(* A header that has the memory it had, and is put on BQ_EMPTY only if it  *)
(* has none.                                                               *)
KeepsMemory(h, g) ==
    /\ g.bufsize = h.bufsize
    /\ g.queue = "EMPTY" => h.queue = "EMPTY" \/ h.bufsize = 0

(* A header that maps fragments of a vnode.                                *)
Maps(h) == "B_INVAL" \notin h.flags /\ h.vp # NoVnode /\ h.bcount # 0

(* What g maps, if anything, is what h mapped.                             *)
MapsNoMore(h, g) ==
    Maps(g) => Maps(h) /\ g.vp = h.vp /\ g.blkno = h.blkno /\ g.bcount = h.bcount

Keeps(h, g) == KeepsMemory(h, g) /\ MapsNoMore(h, g)

(* The step keeps each header's memory and maps nothing more.              *)
AllKept == \A c \in Buf : Keeps(buf[c], buf'[c])

(* brelse, notavail, bwrite and every change of flags that does not clear  *)
(* B_INVAL keep the memory, and map no more.                               *)
LEMMA KeepsFacts ==
    ASSUME NEW h \in BufRec, NEW g \in BufRec, Keeps(h, g)
    PROVE  /\ Keeps(h, Released(g)) /\ Keeps(h, Writing(g)) /\ Keeps(h, notavail(g))
           /\ \A x \in SUBSET Flag : ("B_INVAL" \in g.flags => "B_INVAL" \in x)
                => [g EXCEPT !.flags = x] \in BufRec /\ Keeps(h, [g EXCEPT !.flags = x])
<1>1. Keeps(h, Released(g))
  BY DEF Keeps, KeepsMemory, MapsNoMore, Maps, Released, BufRec, Queue
<1>2. Keeps(h, Writing(g)) /\ Keeps(h, notavail(g))
  BY DEF Keeps, KeepsMemory, MapsNoMore, Maps, Writing, notavail, BufRec, Queue
<1>3. ASSUME NEW x \in SUBSET Flag, "B_INVAL" \in g.flags => "B_INVAL" \in x
      PROVE  [g EXCEPT !.flags = x] \in BufRec /\ Keeps(h, [g EXCEPT !.flags = x])
  BY <1>3 DEF Keeps, KeepsMemory, MapsNoMore, Maps, BufRec
<1>. QED  BY <1>1, <1>2, <1>3

(* Conservation, by the shares.                                            *)
LEMMA ByShares ==
    /\ MemoryConserved <=> Cardinality(Memory(Sizes)) = Cardinality(Memory(BufSize0))
    /\ MemoryConserved' <=> Cardinality(Memory(Sizes)') = Cardinality(Memory(BufSize0))
BY DEF MemoryConserved, Sizes, Memory

(* Steps that keep every header's memory.                                  *)
LEMMA KeptMem ==
    ASSUME IInv, MemInv, \A c \in Buf : KeepsMemory(buf[c], buf'[c])
    PROVE  MemInv'
<1>1. Sizes' = Sizes
  BY DEF Sizes, KeepsMemory
<1>2. EmptyInv'
  BY DEF EmptyInv, MemInv, KeepsMemory
<1>3. MemoryConserved' /\ IsFiniteSet(Memory(Sizes))'
  <2>1. Memory(Sizes)' = Memory(Sizes)
    BY <1>1 DEF Memory
  <2>. QED  BY <2>1, ByShares DEF MemInv
<1>. QED  BY <1>2, <1>3 DEF MemInv

(* Steps that change no header.                                            *)
LEMMA StillKept == ASSUME UNCHANGED buf PROVE AllKept
BY DEF AllKept, Keeps, KeepsMemory, MapsNoMore

(* Steps that change one header.                                           *)
LEMMA HeaderKept ==
    ASSUME IInv, NEW b \in Buf, NEW h \in BufRec, Keeps(buf[b], h),
           \/ buf' = [buf EXCEPT ![b] = h]
           \/ buf' = [buf EXCEPT ![b] = Released(h)]
           \/ buf' = [buf EXCEPT ![b] = Writing(h)]
    PROVE  AllKept
<1>1. buf \in [Buf -> BufRec] /\ buf[b] \in BufRec
  BY DEF IInv, TypeOK
<1>2. PICK g : Keeps(buf[b], g) /\ buf' = [buf EXCEPT ![b] = g]
  <2>1. Keeps(buf[b], Released(h)) /\ Keeps(buf[b], Writing(h))
    BY <1>1, KeepsFacts
  <2>. QED  BY <2>1
<1>3. \A c \in Buf : buf'[c] = IF c = b THEN g ELSE buf[c]
  BY <1>1, <1>2
<1>4. \A c \in Buf : Keeps(buf[c], buf[c])
  BY DEF Keeps, KeepsMemory, MapsNoMore
<1>. QED  BY <1>2, <1>3, <1>4 DEF AllKept

(* A header whose flags alone change.                                      *)
LEMMA FlagsKept ==
    ASSUME IInv, NEW b \in Buf, NEW x \in SUBSET Flag, Has(b, "B_INVAL") => "B_INVAL" \in x
    PROVE  /\ buf[b] \in BufRec /\ Keeps(buf[b], buf[b])
           /\ [buf[b] EXCEPT !.flags = x] \in BufRec
           /\ Keeps(buf[b], [buf[b] EXCEPT !.flags = x])
           /\ notavail(buf[b]) \in BufRec /\ Keeps(buf[b], notavail(buf[b]))
           /\ [notavail(buf[b]) EXCEPT !.flags = x] \in BufRec
           /\ Keeps(buf[b], [notavail(buf[b]) EXCEPT !.flags = x])
<1>1. PICK h \in BufRec : h = buf[b]
  BY DEF IInv, TypeOK
<1>2. Keeps(h, h) /\ ("B_INVAL" \in h.flags => "B_INVAL" \in x)
  BY <1>1 DEF Keeps, KeepsMemory, MapsNoMore, Has
<1>3. PICK g \in BufRec : g = notavail(h) /\ g.flags = h.flags \cup {"B_BUSY"}
  BY notavailFacts
<1>4. Keeps(h, g)
  BY <1>2, <1>3, KeepsFacts
<1>5. [h EXCEPT !.flags = x] \in BufRec /\ Keeps(h, [h EXCEPT !.flags = x])
  BY <1>2, KeepsFacts
<1>6. [g EXCEPT !.flags = x] \in BufRec /\ Keeps(h, [g EXCEPT !.flags = x])
  BY <1>2, <1>3, <1>4, KeepsFacts
<1>. QED  BY <1>1, <1>2, <1>3, <1>4, <1>5, <1>6

(* The steps of a process that free, take, mark or write one buffer.       *)
LEMMA BufferKept ==
    ASSUME IInv, NEW p \in Proc, NEW b \in Buf,
           \/ WaitBusy(p, b) \/ WriteDirty(p, b) \/ GetblkHit(p, b)
           \/ GetnewbufPush(p, b) \/ GetblkNew(p, b) \/ GeteblkNew(p, b)
           \/ OverlapInval(p, b) \/ FlushPush(p, b) \/ BinvalfreeInval(p, b)
    PROVE  AllKept
<1>1. PICK g \in BufRec : g = buf[b]
  BY DEF IInv, TypeOK
<1>2. g.flags \in SUBSET Flag /\ g.flags \cup {"B_WANTED"} \in SUBSET Flag
      /\ g.flags \cup {"B_INVAL"} \in SUBSET Flag
  BY DEF BufRec, Flag
<1>3. PICK n \in BufRec : n = notavail(g) /\ n.flags = g.flags \cup {"B_BUSY"}
  BY notavailFacts
<1>4. n.flags \cup {"B_ASYNC"} \in SUBSET Flag /\ n.flags \cup {"B_INVAL"} \in SUBSET Flag
  BY DEF BufRec, Flag
<1>5. n \in BufRec /\ Keeps(buf[b], n)
  BY <1>1, <1>2, <1>3, FlagsKept
<1>6. CASE WaitBusy(p, b)
  <2>1. buf' = [buf EXCEPT ![b] = [g EXCEPT !.flags = @ \cup {"B_WANTED"}]]
    BY <1>1, <1>6 DEF WaitBusy
  <2>2. PICK h : h = [g EXCEPT !.flags = g.flags \cup {"B_WANTED"}]
    OBVIOUS
  <2>3. h \in BufRec /\ Keeps(buf[b], h)
    BY <1>1, <1>2, <2>2, FlagsKept DEF Has
  <2>. QED  BY <2>1, <2>2, <2>3, HeaderKept
<1>7. CASE GetblkHit(p, b) \/ WriteDirty(p, b)
  <2>1. \/ buf' = [buf EXCEPT ![b] = n]
        \/ buf' = [buf EXCEPT ![b] = Writing(n)]
    BY <1>1, <1>3, <1>7 DEF GetblkHit, WriteDirty, bwrite, Strategy
  <2>. QED  BY <1>5, <2>1, HeaderKept
<1>8. CASE GetnewbufPush(p, b) \/ FlushPush(p, b)
  <2>1. PICK h : h = [n EXCEPT !.flags = n.flags \cup {"B_ASYNC"}]
    OBVIOUS
  <2>2. buf' = [buf EXCEPT ![b] = Writing(h)]
    BY <1>1, <1>3, <1>8, <2>1 DEF GetnewbufPush, FlushPush, bwrite, Strategy
  <2>3. h \in BufRec /\ Keeps(buf[b], h)
    BY <1>1, <1>3, <1>4, <2>1, FlagsKept DEF Has
  <2>. QED  BY <2>2, <2>3, HeaderKept
<1>9. CASE OverlapInval(p, b)
  <2>1. PICK h : h = [n EXCEPT !.flags = n.flags \cup {"B_INVAL"}]
    OBVIOUS
  <2>2. buf' = [buf EXCEPT ![b] = Released(h)]
    BY <1>1, <1>3, <1>9, <2>1 DEF OverlapInval, brelse
  <2>3. h \in BufRec /\ Keeps(buf[b], h)
    BY <1>1, <1>3, <1>4, <2>1, FlagsKept DEF Has
  <2>. QED  BY <2>2, <2>3, HeaderKept
<1>10. CASE BinvalfreeInval(p, b)
  <2>1. PICK h : h = brelvp([g EXCEPT !.flags = @ \cup {"B_INVAL"}])
    OBVIOUS
  <2>2. buf' = [buf EXCEPT ![b] = h]
    BY <1>1, <1>10, <2>1 DEF BinvalfreeInval
  <2>3. h \in BufRec /\ Keeps(buf[b], h)
    BY <1>1, <1>2, <2>1 DEF brelvp, BufRec, Keeps, KeepsMemory, MapsNoMore, Maps
  <2>. QED  BY <2>2, <2>3, HeaderKept
<1>11. CASE GetblkNew(p, b) \/ GeteblkNew(p, b)
  <2>1. PICK m \in BufRec : m = NewBuf(b) /\ KeepsMemory(buf[b], m)
    BY NewBufFacts DEF IInv, TypeOK, KeepsMemory
  <2>2. CurReq(p).vp \in Vnode \cup {NoVnode} /\ CurReq(p).blkno \in Nat
    BY DEF IInv, TypeOK, CurReq, Request0
  <2>3. \E h \in BufRec : Keeps(buf[b], h) /\ buf' = [buf EXCEPT ![b] = h]
    <3>1. CASE GetblkNew(p, b)
      <4>1. PICK h : h = [m EXCEPT !.bcount = 0, !.vp = CurReq(p).vp, !.blkno = CurReq(p).blkno]
        OBVIOUS
      <4>2. h \in BufRec /\ Keeps(buf[b], h)
        BY <2>1, <2>2, <4>1 DEF BufRec, Keeps, KeepsMemory, MapsNoMore, Maps
      <4>. QED  BY <2>1, <3>1, <4>1, <4>2 DEF GetblkNew
    <3>2. CASE GeteblkNew(p, b)
      <4>1. PICK h : h = [m EXCEPT !.bcount = 0, !.flags = @ \cup {"B_INVAL"}]
        OBVIOUS
      <4>2. h \in BufRec /\ Keeps(buf[b], h)
        BY <2>1, <4>1 DEF BufRec, Flag, Keeps, KeepsMemory, MapsNoMore, Maps
      <4>. QED  BY <2>1, <3>2, <4>1, <4>2 DEF GeteblkNew
    <3>. QED  BY <1>11, <3>1, <3>2
  <2>. QED  BY <2>3, HeaderKept
<1>. QED  BY <1>6, <1>7, <1>8, <1>9, <1>10, <1>11

(* The steps of a process that mark, write or release its own buffer.      *)
LEMMA OwnKept ==
    ASSUME IInv, NEW p \in Proc,
           \/ BreallocWrite(p) \/ BreallocGrow(p)
           \/ BreadStart(p) \/ BreadaStart(p) \/ ReadAheadGot(p) \/ ReallocDone(p)
           \/ BwriteDone(p) \/ SetAge(p) \/ ClientStep(p)
    PROVE  AllKept
<1>0. CASE UNCHANGED buf
  BY <1>0, StillKept
<1>1. ASSUME NEW b \in Buf, NEW x \in SUBSET Flag
      PROVE  buf[b].flags \cup x \in SUBSET Flag /\ buf[b].flags \ x \in SUBSET Flag
  BY DEF IInv, TypeOK, BufRec
<1>2. ASSUME NEW b \in Buf, NEW x \in SUBSET Flag, "B_INVAL" \notin x,
             \/ buf' = [buf EXCEPT ![b] = [buf[b] EXCEPT !.flags = @ \cup x]]
             \/ buf' = [buf EXCEPT ![b] = [buf[b] EXCEPT !.flags = @ \ x]]
             \/ buf' = [buf EXCEPT ![b] = Released([buf[b] EXCEPT !.flags = @ \cup x])]
             \/ buf' = [buf EXCEPT ![b] = Writing([buf[b] EXCEPT !.flags = @ \cup x])]
             \/ buf' = [buf EXCEPT ![b] = Released(buf[b])]
             \/ buf' = [buf EXCEPT ![b] = Writing(buf[b])]
      PROVE  AllKept
  <2>1. PICK h, g : /\ h = [buf[b] EXCEPT !.flags = @ \cup x]
                    /\ g = [buf[b] EXCEPT !.flags = @ \ x]
    OBVIOUS
  <2>2. /\ h \in BufRec /\ Keeps(buf[b], h) /\ g \in BufRec /\ Keeps(buf[b], g)
        /\ buf[b] \in BufRec /\ Keeps(buf[b], buf[b])
    BY <1>1, <1>2, <2>1, FlagsKept DEF Has
  <2>. QED  BY <1>2, <2>1, <2>2, HeaderKept
<1>3. /\ {"B_READ"} \in SUBSET Flag /\ {"B_READ", "B_ASYNC"} \in SUBSET Flag
      /\ {"B_DONE"} \in SUBSET Flag /\ {"B_AGE"} \in SUBSET Flag
      /\ {"B_DELWRI", "B_DONE"} \in SUBSET Flag
      /\ RelFlags \subseteq SUBSET Flag /\ WriteFlags \subseteq SUBSET Flag
  BY ConstantTypes DEF Flag
<1>4. CASE BwriteDone(p) \/ SetAge(p)
  <2>1. PICK b \in Buf : wbp[p] = b
    BY <1>4 DEF BwriteDone, SetAge, At, IInv, PcInv, Writer
  <2>2. \/ buf' = [buf EXCEPT ![b] = Released(buf[b])]
        \/ buf' = [buf EXCEPT ![b] = [buf[b] EXCEPT !.flags = @ \cup {"B_AGE"}]]
    BY <1>4, <2>1 DEF BwriteDone, SetAge, brelse
  <2>. QED  BY <1>2, <1>3, <2>2
<1>5. CASE \/ BreallocWrite(p) \/ BreallocGrow(p)
           \/ BreadStart(p) \/ BreadaStart(p) \/ ReadAheadGot(p) \/ ReallocDone(p)
  <2>1. PICK b \in Buf : bp[p] = b
    BY <1>5
    DEF BreallocWrite, BreallocGrow, BreadStart, BreadaStart, ReadAheadGot,
        ReallocDone, At, IInv, PcInv
  <2>2. CASE BreallocWrite(p)
    <3>1. buf' = [buf EXCEPT ![b] = Writing(buf[b])]
      BY <2>1, <2>2 DEF BreallocWrite, bwrite, Strategy
    <3>. QED  BY <1>2, <1>3, <3>1
  <2>3. CASE BreallocGrow(p)
    <3>1. buf' = [buf EXCEPT ![b] = [buf[b] EXCEPT !.flags = @ \ {"B_DONE"}]]
      BY <2>1, <2>3 DEF BreallocGrow
    <3>. QED  BY <1>2, <1>3, <3>1
  <2>5. CASE BreadStart(p) \/ BreadaStart(p)
    <3>1. \/ UNCHANGED buf
          \/ buf' = [buf EXCEPT ![b] = [buf[b] EXCEPT !.flags = @ \cup {"B_READ"}]]
      BY <2>1, <2>5 DEF BreadStart, BreadaStart, Strategy, Reading
    <3>. QED  BY <1>0, <1>2, <1>3, <3>1
  <2>6. CASE ReadAheadGot(p)
    <3>1. \/ buf' = [buf EXCEPT ![b] = Released(buf[b])]
          \/ buf' = [buf EXCEPT ![b] = [buf[b] EXCEPT !.flags = @ \cup {"B_READ", "B_ASYNC"}]]
      BY <2>1, <2>6 DEF ReadAheadGot, brelse, Strategy, ReadingAhead
    <3>. QED  BY <1>2, <1>3, <3>1
  <2>7. CASE ReallocDone(p)
    <3>1. buf' = [buf EXCEPT ![b] = [buf[b] EXCEPT !.flags = @ \cup {"B_DONE"}]]
      BY <2>1, <2>7 DEF ReallocDone
    <3>. QED  BY <1>2, <1>3, <3>1
  <2>. QED  BY <1>5, <2>2, <2>3, <2>5, <2>6, <2>7
<1>6. CASE ClientStep(p)
  <2>1. CASE \E g \in GrowBy : Realloc(p, g)
    BY <1>0, <2>1 DEF Realloc
  <2>2. CASE \/ \E extra \in RelFlags : Brelse(p, extra)
             \/ \E extra \in WriteFlags : Bwrite(p, extra)
             \/ Bdwrite(p)
    <3>1. PICK b \in Buf : bp[p] = b
      BY <2>2 DEF Brelse, Bwrite, Bdwrite, Writable, At, IInv, PcInv
    <3>2. /\ \A x \in RelFlags \cup WriteFlags : x \in SUBSET Flag /\ "B_INVAL" \notin x
          /\ "B_INVAL" \notin {"B_DELWRI", "B_DONE"}
      BY <1>3, ConstantTypes
    <3>3. PICK x \in RelFlags \cup WriteFlags \cup {{"B_DELWRI", "B_DONE"}} :
             \/ buf' = [buf EXCEPT ![b] = Released([buf[b] EXCEPT !.flags = @ \cup x])]
             \/ buf' = [buf EXCEPT ![b] = Writing([buf[b] EXCEPT !.flags = @ \cup x])]
      BY <2>2, <3>1 DEF Brelse, Bwrite, Bdwrite, brelse, bwrite, Strategy
    <3>. QED  BY <1>2, <1>3, <3>2, <3>3
  <2>. QED  BY <1>6, <2>1, <2>2 DEF ClientStep
<1>. QED  BY <1>4, <1>5, <1>6

(* The disk interrupt.                                                     *)
LEMMA BiodoneKept ==
    ASSUME IInv, NEW b \in Buf, NEW err \in BOOLEAN, Biodone(b, err)
    PROVE  AllKept
<1>1. PICK x \in SUBSET Flag :
         x = buf[b].flags \cup {"B_DONE"} \cup (IF err THEN {"B_ERROR"} ELSE {})
  BY DEF IInv, TypeOK, BufRec, Flag
<1>2. PICK h : h = [buf[b] EXCEPT !.flags = x]
  OBVIOUS
<1>3. h \in BufRec /\ Keeps(buf[b], h) /\ h.flags = x /\ buf[b] \in BufRec
  BY <1>1, <1>2, FlagsKept DEF BufRec, Has
<1>4. h = [buf[b] EXCEPT !.flags = @ \cup {"B_DONE"} \cup (IF err THEN {"B_ERROR"} ELSE {})]
  BY <1>1, <1>2
<1>5. PICK g : g = [h EXCEPT !.flags = @ \ {"B_WANTED"}]
  OBVIOUS
<1>6. g \in BufRec /\ Keeps(buf[b], g)
  BY <1>3, <1>5, KeepsFacts
<1>7. \/ buf' = [buf EXCEPT ![b] = Released(h)]
      \/ buf' = [buf EXCEPT ![b] = g]
  BY <1>4, <1>5 DEF Biodone, brelse
<1>. QED  BY <1>3, <1>6, <1>7, HeaderKept

(* allocbuf without a change of memory.                                    *)
LEMMA AllocbufFitsMem ==
    ASSUME IInv, NEW p \in Proc, AllocbufFits(p)
    PROVE  \A c \in Buf : KeepsMemory(buf[c], buf'[c])
<1>1. buf \in [Buf -> BufRec] /\ bp[p] \in Buf
  BY DEF IInv, TypeOK, PcInv, AllocbufFits, At
<1>2. buf' = [buf EXCEPT ![bp[p]].bcount = CurReq(p).size]
  BY DEF AllocbufFits
<1>. QED  BY <1>1, <1>2 DEF KeepsMemory, BufRec

(* A move of memory between the headers t and b, which is released.        *)
LEMMA MovedMem ==
    ASSUME IInv, MemInv, IInv', NEW b \in Buf, NEW t \in Buf, b # t,
           buf[t].queue = "none",
           NEW h \in BufRec, NEW g \in BufRec, g.queue = buf[t].queue,
           buf' = [buf EXCEPT ![t] = g, ![b] = Released(h)],
           h.bufsize + g.bufsize = buf[b].bufsize + buf[t].bufsize
    PROVE  MemInv'
<1>1. /\ buf \in [Buf -> BufRec] /\ buf' \in [Buf -> BufRec]
      /\ buf'[b] = Released(h) /\ buf'[t] = g
      /\ \A c \in Buf \ {b, t} : buf'[c] = buf[c]
  BY DEF IInv, TypeOK
<1>2. buf'[b].bufsize = h.bufsize /\ (buf'[b].queue = "EMPTY" => h.bufsize = 0)
  BY <1>1 DEF Released, BufRec
<1>3. EmptyInv'
  BY <1>1, <1>2 DEF EmptyInv, MemInv
<1>4. Sizes \in [Buf -> Nat] /\ Sizes' \in [Buf -> Nat]
  BY <1>1 DEF Sizes, BufRec
<1>5. /\ \A c \in Buf : Sizes[c] = buf[c].bufsize /\ Sizes'[c] = buf'[c].bufsize
  BY DEF Sizes
<1>6. PICK f \in [Buf -> Nat], s \in [Buf -> Nat] : f = Sizes /\ s = Sizes'
  BY <1>4
<1>7. f[b] + f[t] = s[b] + s[t]
  <2>1. f[b] = buf[b].bufsize /\ f[t] = buf[t].bufsize
    BY <1>5, <1>6
  <2>2. s[b] = h.bufsize /\ s[t] = g.bufsize
    BY <1>1, <1>2, <1>5, <1>6
  <2>. QED  BY <2>1, <2>2
<1>8. \A c \in Buf \ {b, t} : f[c] = s[c]
  BY <1>1, <1>5, <1>6
<1>9. IsFiniteSet(Memory(s)) /\ Cardinality(Memory(s)) = Cardinality(Memory(f))
  BY <1>6, <1>7, <1>8, SharesMoved DEF MemInv
<1>10. Memory(Sizes)' = Memory(s)
  BY <1>6 DEF Memory
<1>. QED  BY <1>3, <1>6, <1>9, <1>10, ByShares DEF MemInv

(* allocbuf, taking memory from another buffer or giving it away.          *)
LEMMA AllocbufMem ==
    ASSUME IInv, MemInv, IInv', NEW p \in Proc, NEW b \in Buf,
           AllocbufTake(p, b) \/ AllocbufShrink(p, b)
    PROVE  MemInv'
<1>1. PICK a \in Buf : bp[p] = a
  BY DEF IInv, TypeOK, PcInv, AllocbufTake, AllocbufShrink, At
<1>2. buf[a].queue = "none" /\ buf[b].queue # "none" /\ a # b
  BY <1>1
  DEF IInv, OwnInv, FlagInv, Owns, AllocbufTake, AllocbufShrink, GetnewbufTake,
      NewBufChoices, OnQueue
<1>3. PICK n \in Nat \ {0} : n = CurReq(p).size
  BY DEF IInv, TypeOK, CurReq, Request0
<1>4. PICK r \in Nat : r = roundup(n)
  BY RoundupNat
<1>5. PICK x \in BufRec, y \in BufRec : x = buf[a] /\ y = buf[b]
  BY DEF IInv, TypeOK
<1>6. x.bufsize \in Nat /\ y.bufsize \in Nat
  BY DEF BufRec
<1>7. CASE AllocbufTake(p, b)
  <2>1. PICK take : take = IF r - x.bufsize >= y.bufsize THEN y.bufsize ELSE r - x.bufsize
    OBVIOUS
  <2>2. take \in Int /\ x.bufsize + take \in Nat /\ y.bufsize - take \in Nat
    BY <1>6, <2>1
  <2>3. PICK left \in Nat : left = y.bufsize - take
    BY <2>2
  <2>4. PICK m \in BufRec : m = NewBuf(b)
    BY NewBufFacts DEF IInv, TypeOK
  <2>5. PICK h : h = [m EXCEPT !.bufsize = left,
                               !.bcount = IF @ > left THEN left ELSE @,
                               !.flags = IF left = 0 THEN @ \cup {"B_INVAL"} ELSE @]
    OBVIOUS
  <2>6. PICK g : g = [x EXCEPT !.bufsize = x.bufsize + take]
    OBVIOUS
  <2>7. buf' = [buf EXCEPT ![a] = g, ![b] = Released(h)]
    BY <1>1, <1>3, <1>4, <1>5, <1>7, <2>1, <2>3, <2>4, <2>5, <2>6 DEF AllocbufTake
  <2>8. h \in BufRec /\ h.bufsize = left
    <3>1. m.bcount \in Nat /\ m.flags \in SUBSET Flag
      BY DEF BufRec
    <3>2. PICK c \in Nat : c = IF m.bcount > left THEN left ELSE m.bcount
      BY <3>1
    <3>3. PICK f \in SUBSET Flag : f = IF left = 0 THEN m.flags \cup {"B_INVAL"} ELSE m.flags
      BY <3>1 DEF Flag
    <3>4. h = [m EXCEPT !.bufsize = left, !.bcount = c, !.flags = f]
      BY <2>5, <3>2, <3>3
    <3>. QED  BY <3>4 DEF BufRec
  <2>9. g \in BufRec /\ g.bufsize = x.bufsize + take /\ g.queue = x.queue
    BY <2>2, <2>6 DEF BufRec
  <2>10. h.bufsize + g.bufsize = buf[b].bufsize + buf[a].bufsize
    BY <1>5, <1>6, <2>2, <2>3, <2>8, <2>9
  <2>. QED  BY <1>2, <1>5, <2>7, <2>8, <2>9, <2>10, MovedMem
<1>8. CASE AllocbufShrink(p, b)
  <2>1. y.bufsize = 0 /\ r < x.bufsize /\ x.bufsize - r \in Nat
    BY <1>1, <1>3, <1>4, <1>5, <1>6, <1>8 DEF AllocbufShrink, OnQueue, MemInv, EmptyInv
  <2>2. PICK k \in Nat : k = x.bufsize - r
    BY <2>1
  <2>3. PICK m \in BufRec : m = notavail(y)
    BY notavailFacts
  <2>4. PICK h : h = [m EXCEPT !.bufsize = k, !.flags = @ \cup {"B_INVAL"}, !.bcount = 0]
    OBVIOUS
  <2>5. PICK g : g = [x EXCEPT !.bufsize = r, !.bcount = n]
    OBVIOUS
  <2>6. CutOff(a, n) = k
    BY <1>4, <1>5, <2>2 DEF CutOff
  <2>7. buf' = [buf EXCEPT ![a] = g, ![b] = Released(h)]
    <3>1. buf' = [buf EXCEPT ![a].bufsize = r, ![a].bcount = n, ![b] = Released(h)]
      BY <1>1, <1>3, <1>4, <1>5, <1>8, <2>3, <2>4, <2>6 DEF AllocbufShrink
    <3>. QED  BY <1>5, <2>5, <3>1
  <2>8. h \in BufRec /\ h.bufsize = k
    BY <2>4 DEF BufRec, Flag
  <2>9. g \in BufRec /\ g.bufsize = r /\ g.queue = x.queue
    BY <2>5 DEF BufRec
  <2>10. h.bufsize + g.bufsize = buf[b].bufsize + buf[a].bufsize
    BY <1>5, <1>6, <2>1, <2>2, <2>8, <2>9
  <2>. QED  BY <1>2, <1>5, <2>7, <2>8, <2>9, <2>10, MovedMem
<1>. QED  BY <1>7, <1>8

(* Every other step of a process changes no header.                        *)
LEMMA NextMem == IInv /\ IInv' /\ MemInv /\ [Next]_vars => MemInv'
<1>. SUFFICES ASSUME IInv, IInv', MemInv, [Next]_vars PROVE MemInv'
  OBVIOUS
<1>0. ASSUME AllKept PROVE MemInv'
  BY <1>0, KeptMem DEF AllKept, Keeps
<1>1. ASSUME NEW p \in Proc, NewCall(p) PROVE MemInv'
  BY <1>0, <1>1, StillKept
  DEF NewCall, bread, breada, getblk, geteblk, blkflush, bflush, binvalfree, Enter
<1>2. ASSUME NEW p \in Proc, ClientStep(p) PROVE MemInv'
  BY <1>0, <1>2, OwnKept
<1>3. ASSUME NEW p \in Proc, KernelStep(p) PROVE MemInv'
  <2>1. ASSUME NEW b \in Buf,
               \/ WaitBusy(p, b) \/ WriteDirty(p, b) \/ GetblkHit(p, b)
               \/ GetnewbufPush(p, b) \/ GetblkNew(p, b) \/ GeteblkNew(p, b)
               \/ AllocbufTake(p, b) \/ AllocbufShrink(p, b)
               \/ OverlapInval(p, b) \/ FlushPush(p, b) \/ BinvalfreeInval(p, b)
        PROVE  MemInv'
    BY <1>0, <2>1, BufferKept, AllocbufMem
  <2>2. CASE \/ GetblkMiss(p) \/ GetnewbufWait(p) \/ BreallocSame(p) \/ BreallocShrink(p)
             \/ OverlapDone(p) \/ AllocbufGrow(p) \/ GotReady(p) \/ ReadAhead(p)
             \/ BreadaLast(p) \/ Biowait(p) \/ BreadDone(p)
             \/ BlkflushDone(p) \/ BflushDone(p) \/ BinvalfreeDone(p)
    <3>1. UNCHANGED buf
      BY <2>2
      DEF GetblkMiss, GetnewbufWait, BreallocSame, BreallocShrink, OverlapDone,
          AllocbufGrow, GotReady, ReadAhead, BreadaLast, Biowait, BreadDone,
          BlkflushDone, BflushDone, BinvalfreeDone, Branch
    <3>. QED  BY <1>0, <3>1, StillKept
  <2>3. CASE AllocbufFits(p)
    BY <2>3, AllocbufFitsMem, KeptMem
  <2>. QED  BY <1>0, <1>3, <2>1, <2>2, <2>3, OwnKept DEF KernelStep
<1>4. CASE Interrupt
  BY <1>0, <1>4, BiodoneKept DEF Interrupt
<1>5. CASE UNCHANGED vars
  BY <1>0, <1>5, StillKept DEF vars
<1>. QED  BY <1>1, <1>2, <1>3, <1>4, <1>5 DEF Next

(* binit's headers have binit's shares.                                    *)
LEMMA InitMem == ASSUME FiniteMemory, Init PROVE MemInv
<1>1. ASSUME NEW b \in Buf
      PROVE  /\ buf[b].bufsize = BufSize0[b]
             /\ buf[b].queue = "EMPTY" => BufSize0[b] = 0
  <2>. DEFINE h == [flags |-> {"B_BUSY", "B_INVAL"}, vp |-> NoVnode, blkno |-> 0,
                    bcount |-> 0, bufsize |-> BufSize0[b], queue |-> "none"]
  <2>1. h \in BufRec /\ h.bufsize = BufSize0[b]
    BY ConstantTypes DEF BufRec, Flag, Queue
  <2>2. buf[b] = Released(h)
    BY DEF Init
  <2>. HIDE DEF h
  <2>. QED  BY <2>1, <2>2 DEF Released, BufRec
<1>2. Sizes = BufSize0
  BY <1>1, ConstantTypes DEF Sizes
<1>. QED  BY <1>1, <1>2, ByShares DEF MemInv, EmptyInv, FiniteMemory

(* For any number of headers and any shares binit gives them: however      *)
(* getblk, geteblk and realloccg make buffers grow and shrink, allocbuf    *)
(* neither loses nor duplicates a fragment of buffer memory.  No           *)
(* hypothesis on the clients is needed.                                    *)
THEOREM MemoryKept == ASSUME FiniteMemory PROVE Spec => []MemoryConserved
<1>1. Init => MemInv
  BY InitMem
<1>2. IInv /\ IInv' /\ MemInv /\ [Next]_vars => MemInv'
  BY NextMem
<1>3. MemInv => MemoryConserved
  BY DEF MemInv
<1>. QED  BY Inductive, <1>1, <1>2, <1>3, PTL DEF Spec
=============================================================================
