------------------------ MODULE BufferUniqueProofs -------------------------
(***************************************************************************)
(* Proof that a block is mapped by at most one buffer, where what clients  *)
(* ask for fits the memory that binit gave each header.                    *)
(*                                                                         *)
(* getblk does not look at the hash chain again after getnewbuf, and       *)
(* brealloc's search for overlaps passes over headers whose b_bcount is    *)
(* still 0.  What keeps blocks unique is that b_bcount is set while the    *)
(* process that searched still has the CPU: allocbuf sleeps only when it   *)
(* has to fetch memory from other buffers, and here it never has to.       *)
(***************************************************************************)
EXTENDS BufferPanicProofs

(* n fragments fit into every header's share of the memory.                *)
Fits(n) == \A b \in Buf : roundup(n) <= BufSize0[b]

(* The hypothesis: whatever getblk, geteblk and realloccg ask for fits, so *)
(* that allocbuf never looks for memory.  Of a Sun-3 with nbuf = bufpages, *)
(* the default, it is true: a cluster, CLBYTES, is as long as MAXBSIZE.    *)
Roomy ==
    /\ \A r \in ReadReqs \cup RaReqs \cup WriteReqs : Fits(r.size)
    /\ \A n \in EblkSizes : Fits(n)
    /\ \A r \in ReadReqs, g \in GrowBy : Fits(r.size + g)

(* p is in getnewbuf, or in a write getnewbuf does.                        *)
InGetnewbuf(p) == pc[p] = "getnewbuf" \/ (pc[p] \in Writer /\ ret[p] = "getnewbuf")

(* What p's arguments are.                                                 *)
ArgsOf(p) ==
    /\ call[p] \in ReadCalls => req[p] \in ReadReqs
    /\ call[p] \in {"breada", "readahead"} => rareq[p] \in RaReqs
    /\ call[p] \in GrowCalls => req[p].vp # NoVnode /\ Fits(req[p].size)
    /\ call[p] = "geteblk" => Fits(req[p].size)
    /\ pc[p] = "getblk" \/ (pc[p] \in Writer /\ ret[p] = "getblk")
          => call[p] \in BlockCalls
    /\ pc[p] \in {"rahead", "ralast"} => call[p] = "breada"
    /\ bp[p] # NoBuf \/ InGetnewbuf(p) => call[p] \in BlockCalls \cup {"geteblk"}

(* The buffers in p's hand are those of its block, and getnewbuf is never  *)
(* called for memory.                                                      *)
HandOf(p) ==
    /\ bp[p] # NoBuf => IF call[p] = "geteblk"
                        THEN Has(bp[p], "B_INVAL") /\ ~Has(bp[p], "B_DELWRI")
                        ELSE Names(bp[p], CurReq(p))
    /\ obp[p] # NoBuf => Names(obp[p], req[p])
    /\ InGetnewbuf(p) => bp[p] = NoBuf

(* From its search for overlaps to the end of allocbuf a process keeps the *)
(* CPU, and what it found stays true: nobody else maps the block.          *)
Searched(p) ==
    pc[p] = "allocbuf" =>
       /\ cpu = p
       /\ ~Has(bp[p], "B_INVAL") =>
             \A c \in Buf \ {bp[p]} : ~Overlaps(c, ReqExt(CurReq(p)))

UniqueInv ==
    /\ \A b \in Buf : buf[b].bufsize = BufSize0[b]
    /\ EmptyInv
    /\ UniqueBlock
    /\ \A p \in Proc : ArgsOf(p) /\ HandOf(p) /\ Searched(p)

-----------------------------------------------------------------------------
(* What a step has to leave alone for that                                 *)

SameName(c) ==
    /\ buf'[c].vp = buf[c].vp /\ buf'[c].blkno = buf[c].blkno
    /\ "B_INVAL" \in buf'[c].flags <=> "B_INVAL" \in buf[c].flags
    /\ "B_DELWRI" \in buf'[c].flags <=> "B_DELWRI" \in buf[c].flags

HandsKept(p) ==
    \A q \in Proc \ {p}, c \in Buf : bp[q] = c \/ obp[q] = c => SameName(c)

(* Extents that meet are of one vnode and not empty.                       *)
LEMMA ExtMeet ==
    ASSUME NEW v, NEW w, NEW k \in Nat, NEW j \in Nat, NEW n \in Nat, NEW m \in Nat,
           Ext(v, k, n) \cap Ext(w, j, m) # {}
    PROVE  v = w /\ n # 0 /\ m # 0
<1>1. PICK f : f \in Ext(v, k, n) /\ f \in Ext(w, j, m)
  OBVIOUS
<1>2. PICK x \in k .. k + n - 1, y \in j .. j + m - 1 : f = <<v, x>> /\ f = <<w, y>>
  BY <1>1 DEF Ext
<1>. QED  BY <1>2

(* Where no header maps more than it did, no block is mapped twice.        *)
LEMMA UniqueKept == ASSUME IInv, IInv', UniqueBlock, AllKept PROVE UniqueBlock'
<1>. SUFFICES ASSUME NEW b \in Buf, NEW c \in Buf, b # c,
                     "B_INVAL" \notin buf'[b].flags, "B_INVAL" \notin buf'[c].flags,
                     buf'[b].vp # NoVnode,
                     BufExt(b)' \cap BufExt(c)' # {}
              PROVE  FALSE
  BY DEF UniqueBlock, Has
<1>1. PICK g \in BufRec, h \in BufRec : g = buf'[b] /\ h = buf'[c]
  BY DEF IInv, TypeOK
<1>2. g.vp = h.vp /\ g.bcount # 0 /\ h.bcount # 0
  BY <1>1, ExtMeet DEF BufRec, BufExt
<1>3. Maps(g) /\ Maps(h)
  BY <1>1, <1>2 DEF Maps
<1>4. MapsNoMore(buf[b], g) /\ MapsNoMore(buf[c], h)
  BY <1>1 DEF AllKept, Keeps
<1>5. /\ Maps(buf[b]) /\ Maps(buf[c])
      /\ BufExt(b)' = BufExt(b) /\ BufExt(c)' = BufExt(c)
  BY <1>1, <1>3, <1>4 DEF MapsNoMore, BufExt
<1>. QED  BY <1>5 DEF UniqueBlock, Maps, Has

(* A search stays true of a process's block when no header maps more.      *)
LEMMA SearchKept ==
    ASSUME IInv, IInv', AllKept, NEW c \in Buf, NEW r \in Request0, r.vp # NoVnode,
           ~Overlaps(c, ReqExt(r))
    PROVE  ~(Overlaps(c, ReqExt(r))')
<1>. SUFFICES ASSUME "B_INVAL" \notin buf'[c].flags, BufExt(c)' \cap ReqExt(r) # {}
              PROVE  FALSE
  BY DEF Overlaps, Has
<1>1. PICK h \in BufRec : h = buf'[c]
  BY DEF IInv, TypeOK
<1>2. BufExt(c)' = Ext(h.vp, h.blkno, h.bcount) /\ ReqExt(r) = Ext(r.vp, r.blkno, r.size)
  BY <1>1 DEF BufExt, ReqExt
<1>3. h.vp = r.vp /\ h.bcount # 0
  <2>1. h.blkno \in Nat /\ h.bcount \in Nat /\ r.blkno \in Nat /\ r.size \in Nat
    BY DEF BufRec, Request0
  <2>. QED  BY <1>2, <2>1, ExtMeet
<1>4. Maps(h) /\ MapsNoMore(buf[c], h)
  BY <1>1, <1>3 DEF Maps, AllKept, Keeps
<1>5. "B_INVAL" \notin buf[c].flags /\ BufExt(c)' = BufExt(c)
  BY <1>1, <1>4 DEF MapsNoMore, Maps, BufExt
<1>. QED  BY <1>5 DEF Overlaps, Has

(* Shares of memory that are kept.                                         *)
LEMMA SharesKept ==
    ASSUME UniqueInv, \A c \in Buf : KeepsMemory(buf[c], buf'[c])
    PROVE  (\A b \in Buf : buf'[b].bufsize = BufSize0[b]) /\ EmptyInv'
BY DEF UniqueInv, EmptyInv, KeepsMemory

(* The invariant is about each other process as it was.                    *)
LEMMA OthersUnique ==
    ASSUME IInv, UniqueInv, NEW p \in Proc, cpu \in {p, NoProc},
           OthersKept(p), HandsKept(p), NEW q \in Proc \ {p}
    PROVE  ArgsOf(q)' /\ HandOf(q)' /\ Searched(q)'
<1>1. ArgsOf(q) /\ HandOf(q) /\ Searched(q)
  BY DEF UniqueInv
<1>2. /\ pc'[q] = pc[q] /\ ret'[q] = ret[q] /\ call'[q] = call[q] /\ req'[q] = req[q]
      /\ rareq'[q] = rareq[q] /\ bp'[q] = bp[q] /\ obp'[q] = obp[q]
  BY DEF OthersKept
<1>3. CurReq(q)' = CurReq(q) /\ (InGetnewbuf(q)' <=> InGetnewbuf(q))
  BY <1>2 DEF CurReq, InGetnewbuf
<1>4. ArgsOf(q)'
  BY <1>1, <1>2, <1>3 DEF ArgsOf, Fits, roundup
<1>5. /\ bp[q] # NoBuf => bp[q] \in Buf /\ SameName(bp[q])
      /\ obp[q] # NoBuf => obp[q] \in Buf /\ SameName(obp[q])
  BY DEF IInv, TypeOK, HandsKept
<1>6. HandOf(q)'
  BY <1>1, <1>2, <1>3, <1>5 DEF HandOf, Names, SameName, Has
<1>7. pc'[q] # "allocbuf"
  BY <1>1, <1>2, DistinctConstants DEF Searched
<1>. QED  BY <1>4, <1>6, <1>7 DEF Searched

(* A step of p preserves the invariant if it preserves it for p.           *)
LEMMA UniqueFrame ==
    ASSUME IInv, IInv', UniqueInv, NEW p \in Proc, cpu \in {p, NoProc},
           OthersKept(p), HandsKept(p), AllKept,
           ArgsOf(p)', HandOf(p)', Searched(p)'
    PROVE  UniqueInv'
<1>1. UniqueBlock'
  BY UniqueKept DEF UniqueInv
<1>2. (\A b \in Buf : buf'[b].bufsize = BufSize0[b]) /\ EmptyInv'
  BY SharesKept DEF AllKept, Keeps
<1>3. \A q \in Proc : ArgsOf(q)' /\ HandOf(q)' /\ Searched(q)'
  BY OthersUnique
<1>. QED  BY <1>1, <1>2, <1>3 DEF UniqueInv

(* A step of p that changes no header.                                     *)
LEMMA UniqueStill ==
    ASSUME IInv, IInv', UniqueInv, NEW p \in Proc, cpu \in {p, NoProc},
           OthersKept(p), UNCHANGED buf,
           ArgsOf(p)', HandOf(p)', Searched(p)'
    PROVE  UniqueInv'
<1>1. HandsKept(p) /\ AllKept
  BY StillKept DEF HandsKept, SameName
<1>. QED  BY <1>1, UniqueFrame

(* A step of p that changes one header, which no other process has in hand *)
(* or which keeps its name.                                                *)
LEMMA OneHand ==
    ASSUME IInv, NEW p \in Proc, NEW b \in Buf, NEW h, buf' = [buf EXCEPT ![b] = h],
           SameName(b) \/ ~Has(b, "B_BUSY") \/ buf[b].queue # "none" \/ Owns(p, b)
    PROVE  HandsKept(p) /\ \A c \in Buf \ {b} : buf'[c] = buf[c] /\ SameName(c)
<1>1. \A c \in Buf \ {b} : buf'[c] = buf[c] /\ SameName(c)
  BY DEF IInv, TypeOK, SameName
<1>2. SameName(b) \/ \A q \in Proc \ {p} : bp[q] # b /\ obp[q] # b
  BY FreeFacts DEF IInv, OwnInv, Owns
<1>. QED  BY <1>1, <1>2 DEF HandsKept

-----------------------------------------------------------------------------
(* Init, and the steps that change no header                               *)

(* binit's headers map nothing.                                            *)
LEMMA InitUnique == Init => UniqueInv
<1>. SUFFICES ASSUME Init PROVE UniqueInv
  OBVIOUS
<1>1. ASSUME NEW b \in Buf
      PROVE  /\ buf[b].bufsize = BufSize0[b] /\ Has(b, "B_INVAL")
             /\ buf[b].queue = "EMPTY" => BufSize0[b] = 0
  <2>. DEFINE h == [flags |-> {"B_BUSY", "B_INVAL"}, vp |-> NoVnode, blkno |-> 0,
                    bcount |-> 0, bufsize |-> BufSize0[b], queue |-> "none"]
  <2>1. h \in BufRec /\ h.bufsize = BufSize0[b] /\ "B_INVAL" \in h.flags
    BY ConstantTypes DEF BufRec, Flag, Queue
  <2>2. buf[b] = Released(h)
    BY DEF Init
  <2>. HIDE DEF h
  <2>. QED  BY <2>1, <2>2 DEF Released, BufRec, Has
<1>2. EmptyInv /\ UniqueBlock
  BY <1>1 DEF EmptyInv, UniqueBlock
<1>3. ASSUME NEW p \in Proc PROVE ArgsOf(p) /\ HandOf(p) /\ Searched(p)
  BY DEF Init, ArgsOf, HandOf, Searched, InGetnewbuf, ReadCalls, GrowCalls, Writer
<1>. QED  BY <1>1, <1>2, <1>3 DEF UniqueInv

(* A client's call sets its arguments.                                     *)
LEMMA NewCallUnique ==
    ASSUME Roomy, IInv, IInv', UniqueInv, NEW p \in Proc, NewCall(p)
    PROVE  UniqueInv'
<1>. DEFINE Entry(c, r, l) ==
       /\ Enter(p, c, r, l)
       /\ \/ c = "bread" /\ r \in ReadReqs /\ l = "getblk"
          \/ /\ c = "breada" /\ r \in ReadReqs /\ l \in {"getblk", "rahead"}
             /\ rareq'[p] \in RaReqs
          \/ /\ c = "getblk" /\ r.vp # NoVnode /\ Fits(r.size) /\ l = "getblk"
          \/ c = "geteblk" /\ Fits(r.size) /\ l = "getnewbuf"
          \/ c \in Flusher /\ l = c
       /\ \A q \in Proc \ {p} : rareq'[q] = rareq[q]
<1>0. \E c, r, l : Entry(c, r, l)
  <2>0. rareq \in [Proc -> Request0]
    BY DEF IInv, TypeOK
  <2>1. ASSUME NEW r \in ReadReqs, bread(p, r) PROVE Entry("bread", r, "getblk")
    BY <2>1 DEF bread
  <2>2. ASSUME NEW r \in ReadReqs, NEW ra \in RaReqs, breada(p, r, ra)
        PROVE  Entry("breada", r, "getblk") \/ Entry("breada", r, "rahead")
    BY <2>0, <2>2 DEF breada
  <2>3. ASSUME NEW r \in WriteReqs, getblk(p, r) PROVE Entry("getblk", r, "getblk")
    <3>1. r.vp # NoVnode /\ Fits(r.size)
      BY ConstantTypes, DistinctConstants DEF Request, Roomy
    <3>. QED  BY <2>3, <3>1 DEF getblk
  <2>4. ASSUME NEW n \in EblkSizes, geteblk(p, n)
        PROVE  Entry("geteblk", BlockRequest(n), "getnewbuf")
    <3>1. Fits(BlockRequest(n).size)
      BY DEF Roomy, BlockRequest
    <3>. QED  BY <2>4, <3>1 DEF geteblk
  <2>5. ASSUME NEW r \in FlushReqs, blkflush(p, r) PROVE Entry("blkflush", r, "blkflush")
    BY <2>5 DEF blkflush, Flusher
  <2>6. ASSUME NEW v \in FlushVnodes, bflush(p, v)
        PROVE  Entry("bflush", VnodeRequest(v), "bflush")
    BY <2>6 DEF bflush, Flusher
  <2>7. ASSUME NEW v \in InvalVnodes, binvalfree(p, v)
        PROVE  Entry("binvalfree", VnodeRequest(v), "binvalfree")
    BY <2>7 DEF binvalfree, Flusher
  <2>. HIDE DEF Entry
  <2>. QED  BY <2>1, <2>2, <2>3, <2>4, <2>5, <2>6, <2>7 DEF NewCall
<1>1. PICK c, r, l : Entry(c, r, l)
  BY <1>0
<1>2. /\ OthersKept(p) /\ UNCHANGED buf /\ bp'[p] = NoBuf /\ obp'[p] = NoBuf
      /\ cpu \in {p, NoProc}
      /\ pc'[p] = l /\ call'[p] = c /\ req'[p] = r
  BY <1>1, DistinctConstants DEF IInv, TypeOK, PcInv, Enter, At, Goto, OthersKept
<1>3. ArgsOf(p)'
  BY <1>1, <1>2
  DEF ArgsOf, InGetnewbuf, ReadCalls, GrowCalls, BlockCalls, Writer, Flusher, Fits, roundup
<1>4. HandOf(p)' /\ Searched(p)'
  BY <1>1, <1>2 DEF HandOf, Searched, Flusher
<1>. QED  BY <1>2, <1>3, <1>4, UniqueStill

(* What a process asks for fits, and is of a vnode unless geteblk asks.    *)
LEMMA CurReqFits ==
    ASSUME Roomy, UniqueInv, NEW p \in Proc, bp[p] # NoBuf
    PROVE  /\ Fits(CurReq(p).size)
           /\ call[p] # "geteblk" => CurReq(p).vp # NoVnode
<1>1. ArgsOf(p) /\ call[p] \in BlockCalls \cup {"geteblk"}
  BY DEF UniqueInv, ArgsOf
<1>2. \A r \in ReadReqs \cup RaReqs : r.vp # NoVnode /\ Fits(r.size)
  BY ConstantTypes, DistinctConstants DEF Request, Roomy
<1>. QED  BY <1>1, <1>2 DEF ArgsOf, CurReq, BlockCalls, ReadCalls, GrowCalls

(* Memory is never looked for, and never given away.                       *)
LEMMA MemoryFits ==
    ASSUME Roomy, IInv, UniqueInv, NEW p \in Proc, bp[p] \in Buf
    PROVE  /\ roundup(CurReq(p).size) \in Nat \ {0}
           /\ roundup(CurReq(p).size) <= buf[bp[p]].bufsize
           /\ OnQueue("EMPTY") = {}
<1>1. Fits(CurReq(p).size)
  BY CurReqFits, DistinctConstants
<1>2. PICK n \in Nat \ {0} : n = CurReq(p).size
  BY DEF IInv, TypeOK, CurReq, Request0
<1>3. n <= roundup(n) /\ roundup(n) \in Nat
  BY RoundupCovers, RoundupNat
<1>4. \A b \in Buf : buf[b].bufsize = BufSize0[b] /\ BufSize0[b] \in Nat
  BY ConstantTypes DEF UniqueInv
<1>5. \A b \in Buf : roundup(n) <= buf[b].bufsize
  BY <1>1, <1>2, <1>4 DEF Fits
<1>6. \A b \in Buf : buf[b].queue # "EMPTY"
  BY <1>3, <1>4, <1>5 DEF UniqueInv, EmptyInv
<1>. QED  BY <1>2, <1>3, <1>5, <1>6 DEF OnQueue

(* So these steps do not happen.                                           *)
LEMMA NoMemoryMoved ==
    ASSUME Roomy, IInv, UniqueInv, NEW p \in Proc
    PROVE  /\ ~AllocbufGrow(p)
           /\ \A b \in Buf : ~AllocbufTake(p, b) /\ ~AllocbufShrink(p, b)
<1>1. ~AllocbufGrow(p)
  <2>. SUFFICES ASSUME AllocbufGrow(p) PROVE FALSE
    OBVIOUS
  <2>1. PICK b \in Buf : bp[p] = b
    BY DEF IInv, PcInv, AllocbufGrow, At
  <2>2. buf[b].bufsize \in Nat
    BY DEF IInv, TypeOK, BufRec
  <2>. QED  BY <2>1, <2>2, MemoryFits DEF AllocbufGrow
<1>2. ASSUME NEW b \in Buf PROVE ~AllocbufTake(p, b)
  BY DEF UniqueInv, HandOf, InGetnewbuf, AllocbufTake, GetnewbufTake, At
<1>3. ASSUME NEW b \in Buf PROVE ~AllocbufShrink(p, b)
  BY MemoryFits DEF IInv, PcInv, AllocbufShrink, At
<1>. QED  BY <1>1, <1>2, <1>3

(* The steps that only move a process on.                                  *)
LEMMA BranchUnique ==
    ASSUME IInv, IInv', UniqueInv, NEW p \in Proc, NEW k, NEW l, At(p, k), Branch(p, l),
           \/ k = "getblk" /\ l = "getnewbuf"
           \/ k = "brealloc" /\ l = "got"
           \/ k = "got" /\ l = "hold"
           \/ k = "biowait" /\ l = "hold"
           \/ k = "overlap" /\ l = "allocbuf" /\ Found(p) = {}
    PROVE  UniqueInv'
<1>1. /\ OthersKept(p) /\ UNCHANGED buf /\ pc[p] = k /\ pc'[p] = l
      /\ UNCHANGED <<call, req, rareq, bp, obp, ret>> /\ cpu \in {p, NoProc}
      /\ l \notin {"idle", "hold"} => cpu' = p
  BY DEF IInv, TypeOK, Branch, Goto, At, args, OthersKept
<1>2. ArgsOf(p) /\ HandOf(p)
  BY DEF UniqueInv
<1>3. k = "getblk" <=> bp[p] = NoBuf
  BY <1>1, DistinctConstants DEF IInv, PcInv
<1>4. ArgsOf(p)'
  BY <1>1, <1>2, <1>3 DEF ArgsOf, InGetnewbuf, Writer, Fits, roundup
<1>5. HandOf(p)'
  BY <1>1, <1>2, <1>3 DEF HandOf, InGetnewbuf, Writer, Names, CurReq, Has
<1>6. Searched(p)'
  <2>1. CASE k = "overlap"
    <3>1. \A c \in Buf \ {bp[p]} : ~Overlaps(c, ReqExt(CurReq(p)))
      BY <1>1, <2>1 DEF Found
    <3>2. \A c \in Buf \ {bp[p]} : ~(Overlaps(c, ReqExt(CurReq(p)))')
      BY <1>1, <3>1 DEF Overlaps, Has, BufExt, CurReq
    <3>. QED  BY <1>1, <2>1, <3>2 DEF Searched, Has
  <2>2. CASE k # "overlap"
    BY <1>1, <2>2 DEF Searched
  <2>. QED  BY <2>1, <2>2
<1>. QED  BY <1>1, <1>4, <1>5, <1>6, UniqueStill

(* The end of a call that has no buffer in hand.                           *)
LEMMA ReturnUnique ==
    ASSUME IInv, IInv', UniqueInv, NEW p \in Proc,
           At(p, "blkflush") \/ At(p, "bflush") \/ At(p, "binvalfree"),
           Return(p),
           UNCHANGED <<wchan, bp, obp, wbp, ret, buf, freeWanted, io, data>>
    PROVE  UniqueInv'
<1>1. /\ OthersKept(p) /\ UNCHANGED <<buf, bp, obp>> /\ cpu \in {p, NoProc}
      /\ pc'[p] = "idle" /\ call'[p] = "none" /\ bp[p] = NoBuf /\ obp[p] = NoBuf
  BY DistinctConstants
  DEF IInv, TypeOK, PcInv, Return, Done, Goto, At, OthersKept, Flusher
<1>2. ArgsOf(p)' /\ HandOf(p)' /\ Searched(p)'
  BY <1>1
  DEF ArgsOf, HandOf, Searched, InGetnewbuf, ReadCalls, GrowCalls, Writer
<1>. QED  BY <1>1, <1>2, UniqueStill

(* A part of a block that one buffer maps is mapped by no other.           *)
LEMMA PartUnique ==
    ASSUME Roomy, IInv, UniqueInv, NEW p \in Proc, bp[p] \in Buf,
           CurReq(p).size <= buf[bp[p]].bcount, ~Has(bp[p], "B_INVAL")
    PROVE  \A c \in Buf \ {bp[p]} : ~Overlaps(c, ReqExt(CurReq(p)))
<1>1. PICK b \in Buf : b = bp[p]
  OBVIOUS
<1>2. call[p] # "geteblk" /\ Names(b, CurReq(p))
  BY <1>1, DistinctConstants DEF UniqueInv, HandOf
<1>3. buf[b].vp # NoVnode
  BY <1>1, <1>2, CurReqFits, DistinctConstants DEF Names
<1>4. ReqExt(CurReq(p)) \subseteq BufExt(b)
  <2>1. /\ CurReq(p).size \in Nat /\ CurReq(p).blkno \in Nat /\ buf[b].bcount \in Nat
        /\ CurReq(p).size <= buf[b].bcount
    BY <1>1 DEF IInv, TypeOK, CurReq, Request0, BufRec
  <2>2. PICK k \in Nat, n \in Nat, m \in Nat :
           k = CurReq(p).blkno /\ n = CurReq(p).size /\ m = buf[b].bcount /\ n <= m
    BY <2>1
  <2>3. k .. k + n - 1 \subseteq k .. k + m - 1
    BY <2>2
  <2>. QED  BY <1>2, <2>2, <2>3 DEF Names, ReqExt, BufExt, Ext
<1>5. ASSUME NEW c \in Buf \ {b} PROVE ~Overlaps(c, ReqExt(CurReq(p)))
  BY <1>1, <1>3, <1>4 DEF UniqueInv, UniqueBlock, Overlaps
<1>. QED  BY <1>1, <1>5

(* The other steps that change no header.                                  *)
LEMMA MoveUnique ==
    ASSUME Roomy, IInv, IInv', UniqueInv, NEW p \in Proc,
           \/ BreallocShrink(p) \/ ReadAhead(p) \/ GetnewbufWait(p) \/ Biowait(p)
           \/ BreadaLast(p)
    PROVE  UniqueInv'
<1>0. ArgsOf(p) /\ HandOf(p)
  BY DEF UniqueInv
<1>1. CASE BreallocShrink(p)
  <2>1. /\ OthersKept(p) /\ UNCHANGED buf
        /\ UNCHANGED <<call, req, rareq, bp, obp, ret>> /\ cpu \in {p, NoProc} /\ cpu' = p
        /\ pc[p] = "brealloc" /\ pc'[p] = "allocbuf" /\ bp[p] \in Buf
    BY <1>1, DistinctConstants
    DEF IInv, TypeOK, PcInv, BreallocShrink, At, Goto, args, OthersKept
  <2>2. ArgsOf(p)' /\ HandOf(p)'
    BY <1>0, <2>1
    DEF ArgsOf, HandOf, InGetnewbuf, Names, CurReq, Has, Writer, Fits, roundup
  <2>3. CurReq(p).size <= buf[bp[p]].bcount
    <3>1. CurReq(p).size \in Nat /\ buf[bp[p]].bcount \in Nat
      BY <2>1 DEF IInv, TypeOK, CurReq, Request0, BufRec
    <3>. QED  BY <1>1, <3>1 DEF BreallocShrink
  <2>4. ~Has(bp[p], "B_INVAL") => \A c \in Buf \ {bp[p]} : ~Overlaps(c, ReqExt(CurReq(p)))
    BY <2>1, <2>3, PartUnique
  <2>5. Searched(p)'
    <3>1. /\ Has(bp[p], "B_INVAL")' <=> Has(bp[p], "B_INVAL")
          /\ bp' = bp /\ CurReq(p)' = CurReq(p)
          /\ \A c \in Buf : Overlaps(c, ReqExt(CurReq(p)))' <=> Overlaps(c, ReqExt(CurReq(p)))
      BY <2>1 DEF Has, Overlaps, BufExt, CurReq
    <3>. QED  BY <2>1, <2>4, <3>1 DEF Searched
  <2>. QED  BY <2>1, <2>2, <2>5, UniqueStill
<1>2. CASE ReadAhead(p)
  <2>1. /\ OthersKept(p) /\ UNCHANGED buf /\ cpu \in {p, NoProc}
        /\ UNCHANGED <<req, rareq, bp, obp, ret>>
        /\ pc[p] = "rahead" /\ bp[p] = NoBuf /\ call[p] = "breada"
        /\ \/ pc'[p] = "ralast" /\ call'[p] = "breada"
           \/ pc'[p] = "getblk" /\ call'[p] = "readahead"
    BY <1>0, <1>2 DEF IInv, TypeOK, PcInv, ReadAhead, At, Goto, OthersKept, ArgsOf
  <2>2. ArgsOf(p)' /\ HandOf(p)' /\ Searched(p)'
    BY <1>0, <2>1
    DEF ArgsOf, HandOf, Searched, InGetnewbuf, Names, Writer, ReadCalls, GrowCalls, BlockCalls
  <2>. QED  BY <2>1, <2>2, UniqueStill
<1>3. CASE GetnewbufWait(p) \/ Biowait(p)
  <2>1. /\ OthersKept(p) /\ UNCHANGED <<buf, pc, call, req, rareq, bp, obp, ret>>
        /\ cpu \in {p, NoProc} /\ pc[p] # "allocbuf"
    BY <1>3 DEF GetnewbufWait, Biowait, Sleep, At, args, OthersKept
  <2>2. ArgsOf(p)' /\ HandOf(p)' /\ Searched(p)'
    BY <1>0, <2>1
    DEF ArgsOf, HandOf, Searched, InGetnewbuf, Names, CurReq, Has, Fits, roundup
  <2>. QED  BY <2>1, <2>2, UniqueStill
<1>4. CASE BreadaLast(p)
  <2>1. /\ OthersKept(p) /\ UNCHANGED <<buf, req, ret>> /\ cpu \in {p, NoProc}
        /\ call[p] = "breada" /\ bp[p] = NoBuf /\ call'[p] = "bread"
        /\ \/ /\ pc'[p] = "getblk" /\ bp'[p] = NoBuf /\ obp'[p] = NoBuf
           \/ /\ pc'[p] = "biowait" /\ bp'[p] = obp[p] /\ obp[p] # NoBuf /\ obp'[p] = NoBuf
    BY <1>0, <1>4 DEF IInv, TypeOK, PcInv, BreadaLast, At, Goto, OthersKept, ArgsOf
  <2>2. ArgsOf(p)'
    BY <1>0, <2>1 DEF ArgsOf, InGetnewbuf, Writer, ReadCalls, GrowCalls, BlockCalls
  <2>3. HandOf(p)' /\ Searched(p)'
    BY <1>0, <2>1 DEF HandOf, Searched, InGetnewbuf, Writer, Names, CurReq, Has
  <2>. QED  BY <2>1, <2>2, <2>3, UniqueStill
<1>. QED  BY <1>1, <1>2, <1>3, <1>4

(* realloccg asks for what Roomy allows it.                                *)
LEMMA ReallocUnique ==
    ASSUME Roomy, IInv, IInv', UniqueInv, NEW p \in Proc, NEW g \in GrowBy, Realloc(p, g)
    PROVE  UniqueInv'
<1>1. /\ OthersKept(p) /\ UNCHANGED <<buf, bp, obp, ret>> /\ cpu \in {p, NoProc}
      /\ pc[p] = "hold" /\ call[p] = "bread" /\ pc'[p] = "brealloc" /\ call'[p] = "realloc"
      /\ req'[p] = [req[p] EXCEPT !.size = req[p].size + g]
      /\ bp[p] # NoBuf
  BY DistinctConstants
  DEF IInv, TypeOK, PcInv, Realloc, Writable, At, Goto, OthersKept
<1>2. ArgsOf(p) /\ HandOf(p) /\ req[p] \in Request0 /\ obp[p] = NoBuf
  BY <1>1 DEF UniqueInv, IInv, TypeOK, PcInv
<1>3. req[p] \in ReadReqs /\ req[p].vp # NoVnode /\ Fits(req[p].size + g)
  BY <1>1, <1>2, ConstantTypes, DistinctConstants DEF ArgsOf, ReadCalls, Request, Roomy
<1>4. /\ req'[p].vp = req[p].vp /\ req'[p].blkno = req[p].blkno
      /\ req'[p].size = req[p].size + g
  BY <1>1, <1>2 DEF Request0
<1>5. ArgsOf(p)'
  BY <1>1, <1>3, <1>4
  DEF ArgsOf, InGetnewbuf, Writer, ReadCalls, GrowCalls, BlockCalls, Fits, roundup
<1>6. HandOf(p)' /\ Searched(p)'
  BY <1>1, <1>2, <1>4 DEF HandOf, Searched, InGetnewbuf, Writer, Names, CurReq, Has
<1>. QED  BY <1>1, <1>5, <1>6, UniqueStill

-----------------------------------------------------------------------------
(* Steps that change the header of a buffer                                *)

(* p keeps its arguments and what it has in hand.                          *)
SideKept(p) ==
    /\ call'[p] = call[p] /\ req'[p] = req[p] /\ rareq'[p] = rareq[p]
    /\ bp'[p] = bp[p] /\ obp'[p] = obp[p]
    /\ \A c \in Buf : bp[p] = c \/ obp[p] = c => SameName(c)

(* ... and goes on inside the same call.                                   *)
LEMMA SideUnique ==
    ASSUME IInv, UniqueInv, NEW p \in Proc, SideKept(p),
           pc'[p] \notin {"rahead", "ralast"},
           pc'[p] = "getblk" \/ (pc'[p] \in Writer /\ ret'[p] = "getblk")
              => call[p] \in BlockCalls,
           InGetnewbuf(p)' => InGetnewbuf(p)
    PROVE  ArgsOf(p)' /\ HandOf(p)' /\ (pc'[p] # "allocbuf" => Searched(p)')
<1>1. ArgsOf(p) /\ HandOf(p)
  BY DEF UniqueInv
<1>2. ArgsOf(p)'
  BY <1>1 DEF ArgsOf, SideKept, Fits, roundup
<1>3. /\ bp[p] # NoBuf => bp[p] \in Buf /\ SameName(bp[p])
      /\ obp[p] # NoBuf => obp[p] \in Buf /\ SameName(obp[p])
  BY DEF IInv, TypeOK, SideKept
<1>4. CurReq(p)' = CurReq(p)
  BY DEF SideKept, CurReq
<1>5. HandOf(p)'
  BY <1>1, <1>3, <1>4 DEF HandOf, SideKept, SameName, Names, Has
<1>. QED  BY <1>2, <1>5 DEF Searched

(* The pushes of brealloc, blkflush, getnewbuf, bflush and binvalfree.     *)
LEMMA PushUnique ==
    ASSUME IInv, IInv', UniqueInv, AllKept, NEW p \in Proc, NEW b \in Buf, NEW h, NEW l,
           l = pc[p], l \in {"overlap", "blkflush", "getnewbuf", "bflush", "binvalfree"},
           cpu \in {p, NoProc},
           buf[b].queue # "none" \/ ~Has(b, "B_BUSY"),
           bwrite(p, b, h, l),
           UNCHANGED <<args, bp, obp>>
    PROVE  UniqueInv'
<1>1. HandsKept(p) /\ \A c \in Buf \ {b} : SameName(c)
  BY OneHand DEF bwrite, Strategy
<1>2. bp[p] # b /\ obp[p] # b
  BY FreeFacts
<1>3. OthersKept(p) /\ SideKept(p)
  BY <1>1, <1>2 DEF IInv, TypeOK, OthersKept, SideKept, bwrite, Goto, args
<1>4. \/ pc'[p] = l
      \/ pc'[p] \in Writer /\ ret'[p] = l
  BY DEF IInv, TypeOK, bwrite, Goto, Writer
<1>5. ArgsOf(p)' /\ HandOf(p)' /\ Searched(p)'
  BY <1>3, <1>4, SideUnique DEF InGetnewbuf, Writer
<1>. QED  BY <1>1, <1>3, <1>5, UniqueFrame

(* The steps of a process that free, take, mark or write one buffer.       *)
LEMMA BufferUnique ==
    ASSUME IInv, IInv', UniqueInv, NEW p \in Proc, NEW b \in Buf,
           \/ WaitBusy(p, b) \/ WriteDirty(p, b) \/ GetblkHit(p, b)
           \/ GetnewbufPush(p, b) \/ GetblkNew(p, b) \/ GeteblkNew(p, b)
           \/ OverlapInval(p, b) \/ FlushPush(p, b) \/ BinvalfreeInval(p, b)
    PROVE  UniqueInv'
<1>0. AllKept /\ ArgsOf(p) /\ HandOf(p) /\ buf \in [Buf -> BufRec]
  BY BufferKept DEF UniqueInv, IInv, TypeOK
<1>1. CASE WaitBusy(p, b)
  <2>1. \A c \in Buf : SameName(c)
    BY <1>0, <1>1 DEF WaitBusy, SameName, BufRec
  <2>2. /\ HandsKept(p) /\ OthersKept(p) /\ SideKept(p) /\ cpu \in {p, NoProc}
        /\ pc' = pc /\ ret' = ret /\ pc[p] \in {"getblk", "overlap", "blkflush"}
    BY <1>1, <2>1
    DEF WaitBusy, Searching, At, Sleep, args, HandsKept, OthersKept, SideKept
  <2>3. ArgsOf(p)' /\ HandOf(p)' /\ Searched(p)'
    BY <1>0, <2>2, SideUnique DEF InGetnewbuf, ArgsOf, Writer
  <2>. QED  BY <1>0, <2>2, <2>3, UniqueFrame
<1>2. CASE WriteDirty(p, b)
  BY <1>0, <1>2, PushUnique DEF WriteDirty, At
<1>3. CASE GetnewbufPush(p, b)
  <2>1. buf[b].queue # "none"
    BY <1>3 DEF GetnewbufPush, NewBufChoices, OnQueue
  <2>. QED  BY <1>0, <1>3, <2>1, PushUnique DEF GetnewbufPush, At
<1>4. CASE FlushPush(p, b)
  <2>1. buf[b].queue # "none"
    BY <1>4 DEF FlushPush, FreeOf, OnQueue
  <2>. QED  BY <1>0, <1>4, <2>1, PushUnique DEF FlushPush, At
<1>5. CASE OverlapInval(p, b) \/ BinvalfreeInval(p, b)
  <2>1. buf[b].queue # "none" \/ ~Has(b, "B_BUSY")
    BY <1>5 DEF OverlapInval, BinvalfreeInval, FreeOf, OnQueue
  <2>2. \E h : buf' = [buf EXCEPT ![b] = h]
    BY <1>5 DEF OverlapInval, BinvalfreeInval, brelse
  <2>3. HandsKept(p) /\ (\A c \in Buf \ {b} : SameName(c)) /\ bp[p] # b /\ obp[p] # b
    BY <2>1, <2>2, OneHand, FreeFacts
  <2>4. /\ OthersKept(p) /\ SideKept(p) /\ cpu \in {p, NoProc}
        /\ pc'[p] \in {"overlap", "binvalfree"}
    BY <1>5, <2>3
    DEF IInv, TypeOK, OverlapInval, BinvalfreeInval, At, Goto, args, OthersKept, SideKept
  <2>5. ArgsOf(p)' /\ HandOf(p)' /\ Searched(p)'
    BY <2>4, SideUnique DEF InGetnewbuf, Writer
  <2>. QED  BY <1>0, <2>3, <2>4, <2>5, UniqueFrame
<1>6. CASE GetblkHit(p, b) \/ GetblkNew(p, b) \/ GeteblkNew(p, b)
  <2>1. buf[b].queue # "none" \/ ~Has(b, "B_BUSY")
    BY <1>6
    DEF GetblkHit, GetblkNew, GeteblkNew, GetnewbufTake, NewBufChoices, OnQueue
  <2>2. \E h : buf' = [buf EXCEPT ![b] = h]
    BY <1>6 DEF GetblkHit, GetblkNew, GeteblkNew
  <2>3. HandsKept(p) /\ (\A c \in Buf \ {b} : SameName(c)) /\ obp[p] # b
    BY <2>1, <2>2, OneHand, FreeFacts
  <2>4. /\ OthersKept(p) /\ cpu \in {p, NoProc}
        /\ call'[p] = call[p] /\ req'[p] = req[p] /\ rareq'[p] = rareq[p]
        /\ bp'[p] = b /\ obp'[p] = obp[p] /\ pc'[p] = "brealloc"
        /\ CurReq(p)' = CurReq(p)
    BY <1>6
    DEF IInv, TypeOK, GetblkHit, GetblkNew, GeteblkNew, GetnewbufTake, At, Goto, args,
        OthersKept, CurReq
  <2>5. call[p] \in BlockCalls \cup {"geteblk"}
    BY <1>0, <1>6
    DEF ArgsOf, InGetnewbuf, GetblkHit, GetblkNew, GeteblkNew, GetnewbufTake, At
  <2>6. IF call[p] = "geteblk" THEN "B_INVAL" \in buf'[b].flags /\ "B_DELWRI" \notin buf'[b].flags
        ELSE buf'[b].vp = CurReq(p).vp /\ buf'[b].blkno = CurReq(p).blkno
    <3>1. CASE GetblkHit(p, b)
      <4>1. Names(b, CurReq(p)) /\ call[p] \in BlockCalls
        BY <1>0, <3>1 DEF GetblkHit, At, Found, Matches, Names, ArgsOf
      <4>2. buf'[b] = notavail(buf[b])
        BY <1>0, <3>1 DEF GetblkHit
      <4>. QED  BY <1>0, <4>1, <4>2 DEF Names, notavail, BufRec, BlockCalls
    <3>2. CASE GetblkNew(p, b) \/ GeteblkNew(p, b)
      <4>1. PICK m \in BufRec : m = NewBuf(b) /\ m.flags = {"B_BUSY"}
        BY <1>0, NewBufFacts
      <4>2. CASE GetblkNew(p, b)
        <5>1. buf'[b] = [m EXCEPT !.bcount = 0, !.vp = CurReq(p).vp, !.blkno = CurReq(p).blkno]
          BY <1>0, <4>1, <4>2 DEF GetblkNew
        <5>2. call[p] # "geteblk"
          BY <4>2 DEF GetblkNew
        <5>. QED  BY <5>1, <5>2 DEF BufRec
      <4>3. CASE GeteblkNew(p, b)
        <5>1. buf'[b] = [m EXCEPT !.bcount = 0, !.flags = @ \cup {"B_INVAL"}]
          BY <1>0, <4>1, <4>3 DEF GeteblkNew
        <5>2. call[p] = "geteblk"
          BY <4>3 DEF GeteblkNew
        <5>. QED  BY <4>1, <5>1, <5>2 DEF BufRec
      <4>. QED  BY <3>2, <4>2, <4>3
    <3>. QED  BY <1>6, <3>1, <3>2
  <2>7. ArgsOf(p)'
    BY <1>0, <2>4, <2>5 DEF ArgsOf, InGetnewbuf, Writer, Fits, roundup
  <2>8. obp[p] # NoBuf => obp[p] \in Buf /\ SameName(obp[p])
    BY <2>3 DEF IInv, TypeOK
  <2>9. HandOf(p)' /\ Searched(p)'
    BY <1>0, <2>4, <2>6, <2>8
    DEF HandOf, Searched, InGetnewbuf, Writer, Names, Has, SameName
  <2>. QED  BY <1>0, <2>3, <2>4, <2>7, <2>9, UniqueFrame
<1>. QED  BY <1>1, <1>2, <1>3, <1>4, <1>5, <1>6

(* bwrite's waits and its last assignment.                                 *)
LEMMA WriterUnique ==
    ASSUME IInv, IInv', UniqueInv, NEW p \in Proc, BwriteDone(p) \/ SetAge(p)
    PROVE  UniqueInv'
<1>1. AllKept /\ ArgsOf(p) /\ buf \in [Buf -> BufRec]
  BY OwnKept DEF UniqueInv, IInv, TypeOK
<1>2. PICK b \in Buf : wbp[p] = b /\ pc[p] \in Writer
  BY DEF BwriteDone, SetAge, At, IInv, PcInv, Writer
<1>3. /\ HandsKept(p)
      /\ \A c \in Buf : bp[p] = c \/ obp[p] = c => SameName(c)
  <2>1. CASE BwriteDone(p)
    <3>1. Owns(p, b) /\ bp[p] # b /\ obp[p] # b
      BY <1>2, <2>1 DEF BwriteDone, At, Owns, IInv, OwnInv
    <3>2. buf' = [buf EXCEPT ![b] = Released(buf[b])]
      BY <1>2, <2>1 DEF BwriteDone, brelse
    <3>. QED  BY <3>1, <3>2, OneHand
  <2>2. CASE SetAge(p)
    <3>1. \A c \in Buf : SameName(c)
      BY <1>1, <1>2, <2>2 DEF SetAge, SameName, BufRec
    <3>. QED  BY <3>1 DEF HandsKept
  <2>. QED  BY <2>1, <2>2
<1>4. /\ OthersKept(p) /\ SideKept(p) /\ cpu \in {p, NoProc}
      /\ pc'[p] = ret[p]
  BY <1>3
  DEF IInv, TypeOK, BwriteDone, SetAge, BwriteReturn, At, Goto, args, OthersKept, SideKept
<1>5. ret[p] \in {"idle", "getblk", "getnewbuf", "overlap", "blkflush", "bflush", "binvalfree"}
  BY <1>2 DEF IInv, PcInv
<1>6. ArgsOf(p)' /\ HandOf(p)' /\ Searched(p)'
  BY <1>1, <1>2, <1>4, <1>5, SideUnique DEF ArgsOf, InGetnewbuf, Writer
<1>. QED  BY <1>1, <1>3, <1>4, <1>6, UniqueFrame

(* The steps of getblk's callers and of brealloc that keep the buffer.     *)
LEMMA MarkUnique ==
    ASSUME Roomy, IInv, IInv', UniqueInv, NEW p \in Proc,
           BreallocGrow(p) \/ BreadStart(p) \/ ReallocDone(p)
    PROVE  UniqueInv'
<1>1. AllKept /\ ArgsOf(p) /\ HandOf(p) /\ buf \in [Buf -> BufRec]
  BY OwnKept DEF UniqueInv, IInv, TypeOK
<1>2. PICK b \in Buf : bp[p] = b
  BY DEF BreallocGrow, BreadStart, ReallocDone, At, IInv, PcInv
<1>3. \A c \in Buf : SameName(c)
  BY <1>1, <1>2
  DEF BreallocGrow, BreadStart, ReallocDone, Strategy, Reading, SameName, BufRec
<1>4. /\ OthersKept(p) /\ SideKept(p) /\ HandsKept(p) /\ cpu \in {p, NoProc}
      /\ pc'[p] \in {"overlap", "allocbuf", "biowait", "hold"}
      /\ pc'[p] = "allocbuf" => buf[b].vp = NoVnode /\ cpu' = p
  BY <1>2, <1>3
  DEF IInv, TypeOK, BreallocGrow, BreadStart, ReallocDone, At, Goto, args, OthersKept,
      SideKept, HandsKept
<1>5. ArgsOf(p)' /\ HandOf(p)' /\ (pc'[p] # "allocbuf" => Searched(p)')
  BY <1>4, SideUnique DEF InGetnewbuf, Writer
<1>6. ASSUME pc'[p] = "allocbuf" PROVE Searched(p)'
  <2>1. call[p] = "geteblk"
    BY <1>1, <1>2, <1>4, <1>6, CurReqFits, DistinctConstants DEF HandOf, Names
  <2>2. Has(bp[p], "B_INVAL")'
    BY <1>1, <1>2, <1>3, <1>4, <2>1, DistinctConstants DEF HandOf, SideKept, SameName, Has
  <2>. QED  BY <1>4, <1>6, <2>2 DEF Searched
<1>. QED  BY <1>1, <1>4, <1>5, <1>6, UniqueFrame

(* The steps that give the buffer up, or put it aside for the read-ahead.  *)
LEMMA GiveUnique ==
    ASSUME IInv, IInv', UniqueInv, NEW p \in Proc,
           BreallocWrite(p) \/ BreadaStart(p) \/ ReadAheadGot(p)
    PROVE  UniqueInv'
<1>1. AllKept /\ ArgsOf(p) /\ HandOf(p) /\ buf \in [Buf -> BufRec]
  BY OwnKept DEF UniqueInv, IInv, TypeOK
<1>2. PICK b \in Buf : bp[p] = b /\ obp[p] # b /\ Owns(p, b)
  BY DEF BreallocWrite, BreadaStart, ReadAheadGot, At, IInv, PcInv, OwnInv, Owns
<1>3. UNCHANGED buf \/ \E h : buf' = [buf EXCEPT ![b] = h]
  BY <1>2
  DEF BreallocWrite, BreadaStart, ReadAheadGot, bwrite, brelse, Strategy
<1>4. HandsKept(p) /\ \A c \in Buf \ {b} : SameName(c)
  <2>1. CASE UNCHANGED buf
    BY <2>1 DEF HandsKept, SameName
  <2>2. CASE \E h : buf' = [buf EXCEPT ![b] = h]
    BY <1>2, <2>2, OneHand
  <2>. QED  BY <1>3, <2>1, <2>2
<1>5. OthersKept(p) /\ cpu \in {p, NoProc} /\ bp'[p] = NoBuf
  BY DEF IInv, TypeOK, BreallocWrite, BreadaStart, ReadAheadGot, bwrite, At, Goto, args,
         OthersKept
<1>6. obp[p] # NoBuf => obp[p] \in Buf /\ SameName(obp[p])
  BY <1>2, <1>4 DEF IInv, TypeOK
<1>7. CASE BreallocWrite(p)
  <2>1. /\ UNCHANGED <<call, req, rareq, obp>>
        /\ pc'[p] = "getblk" \/ (pc'[p] \in Writer /\ ret'[p] = "getblk")
    BY <1>7 DEF IInv, TypeOK, BreallocWrite, bwrite, Goto, args, Writer
  <2>2. call[p] \in BlockCalls
    BY <1>1, <1>2, <1>7, DistinctConstants DEF ArgsOf, HandOf, BreallocWrite
  <2>3. ArgsOf(p)'
    BY <1>1, <1>5, <2>1, <2>2 DEF ArgsOf, InGetnewbuf, Writer, Fits, roundup
  <2>4. HandOf(p)' /\ Searched(p)'
    BY <1>1, <1>5, <1>6, <2>1 DEF HandOf, Searched, InGetnewbuf, Writer, Names, SameName
  <2>. QED  BY <1>1, <1>4, <1>5, <2>3, <2>4, UniqueFrame
<1>8. CASE BreadaStart(p)
  <2>1. /\ UNCHANGED <<call, req, rareq>> /\ obp'[p] = b /\ call[p] = "breada"
        /\ pc'[p] = "rahead" /\ CurReq(p) = req[p]
        /\ SameName(b)
    BY <1>1, <1>2, <1>8
    DEF IInv, TypeOK, BreadaStart, Strategy, Reading, Goto, args, CurReq, SameName, BufRec
  <2>2. ArgsOf(p)'
    BY <1>1, <1>5, <2>1 DEF ArgsOf, InGetnewbuf, Writer, ReadCalls, GrowCalls, BlockCalls
  <2>3. HandOf(p)' /\ Searched(p)'
    BY <1>1, <1>2, <1>5, <2>1, DistinctConstants
    DEF HandOf, Searched, InGetnewbuf, Writer, Names, SameName
  <2>. QED  BY <1>1, <1>4, <1>5, <2>2, <2>3, UniqueFrame
<1>9. CASE ReadAheadGot(p)
  <2>1. /\ UNCHANGED <<req, rareq, obp>> /\ call[p] = "readahead" /\ call'[p] = "breada"
        /\ pc'[p] = "ralast"
    BY <1>9 DEF IInv, TypeOK, ReadAheadGot, Goto
  <2>2. ArgsOf(p)'
    BY <1>1, <1>5, <2>1 DEF ArgsOf, InGetnewbuf, Writer, ReadCalls, GrowCalls, BlockCalls
  <2>3. HandOf(p)' /\ Searched(p)'
    BY <1>1, <1>5, <1>6, <2>1 DEF HandOf, Searched, InGetnewbuf, Writer, Names, SameName
  <2>. QED  BY <1>1, <1>4, <1>5, <2>2, <2>3, UniqueFrame
<1>. QED  BY <1>7, <1>8, <1>9

(* The client's brelse, bwrite and bdwrite end its call.                   *)
LEMMA ClientUnique ==
    ASSUME Roomy, IInv, IInv', UniqueInv, NEW p \in Proc, ClientStep(p)
    PROVE  UniqueInv'
<1>1. CASE \E g \in GrowBy : Realloc(p, g)
  BY <1>1, ReallocUnique
<1>2. CASE \/ \E extra \in RelFlags : Brelse(p, extra)
           \/ \E extra \in WriteFlags : Bwrite(p, extra)
           \/ Bdwrite(p)
  <2>1. AllKept /\ buf \in [Buf -> BufRec]
    BY OwnKept DEF IInv, TypeOK
  <2>2. PICK b \in Buf : bp[p] = b /\ Owns(p, b)
    BY <1>2 DEF Brelse, Bwrite, Bdwrite, Writable, At, IInv, PcInv, Owns
  <2>3. \E h : buf' = [buf EXCEPT ![b] = h]
    BY <1>2, <2>2 DEF Brelse, Bwrite, Bdwrite, brelse, bwrite, Strategy
  <2>4. HandsKept(p)
    BY <2>2, <2>3, OneHand
  <2>5. /\ OthersKept(p) /\ cpu \in {p, NoProc} /\ bp'[p] = NoBuf /\ call'[p] = "none"
        /\ obp' = obp
        /\ pc'[p] = "idle" \/ (pc'[p] \in Writer /\ ret'[p] = "idle")
    <3>0. /\ pc \in [Proc -> Label] /\ ret \in [Proc -> Label] /\ call \in [Proc -> Call]
          /\ bp \in [Proc -> Buf \cup {NoBuf}]
      BY DEF IInv, TypeOK
    <3>1. ASSUME NEW x, Brelse(p, x) \/ Bdwrite(p)
          PROVE  /\ OthersKept(p) /\ cpu \in {p, NoProc} /\ bp'[p] = NoBuf
                 /\ call'[p] = "none" /\ obp' = obp /\ pc'[p] = "idle"
      BY <3>0, <3>1
      DEF Brelse, Bdwrite, Writable, Give, Return, Done, At, Goto, OthersKept, IInv, TypeOK
    <3>2. ASSUME NEW x, Bwrite(p, x)
          PROVE  /\ OthersKept(p) /\ cpu \in {p, NoProc} /\ bp'[p] = NoBuf
                 /\ call'[p] = "none" /\ obp' = obp
                 /\ pc'[p] = "idle" \/ (pc'[p] \in Writer /\ ret'[p] = "idle")
      BY <3>0, <3>2
      DEF Bwrite, Writable, Give, Done, bwrite, At, Goto, OthersKept, Writer, IInv, TypeOK
    <3>. QED  BY <1>2, <3>1, <3>2
  <2>6. obp[p] = NoBuf
    BY <1>2 DEF IInv, PcInv, Brelse, Bwrite, Bdwrite, Writable, At
  <2>7. ArgsOf(p)' /\ HandOf(p)' /\ Searched(p)'
    BY <2>5, <2>6 DEF ArgsOf, HandOf, Searched, InGetnewbuf, ReadCalls, GrowCalls, Writer
  <2>. QED  BY <2>1, <2>4, <2>5, <2>7, UniqueFrame
<1>. QED  BY <1>1, <1>2 DEF ClientStep

(* allocbuf gives the buffer the extent that nobody else was found to map. *)
LEMMA AllocbufFitsUnique ==
    ASSUME Roomy, IInv, IInv', UniqueInv, NEW p \in Proc, AllocbufFits(p)
    PROVE  UniqueInv'
<1>1. PICK t \in Buf : bp[p] = t
  BY DEF AllocbufFits, At, IInv, PcInv
<1>2. buf \in [Buf -> BufRec] /\ buf' = [buf EXCEPT ![t].bcount = CurReq(p).size]
  BY <1>1 DEF AllocbufFits, IInv, TypeOK
<1>3. /\ \A c \in Buf : SameName(c)
      /\ \A c \in Buf \ {t} : buf'[c] = buf[c]
      /\ buf'[t].bcount = CurReq(p).size
  BY <1>2 DEF SameName, BufRec
<1>4. /\ OthersKept(p) /\ SideKept(p) /\ HandsKept(p) /\ cpu \in {p, NoProc}
      /\ pc[p] = "allocbuf" /\ pc'[p] = "got"
  BY <1>3 DEF IInv, TypeOK, AllocbufFits, At, Goto, args, OthersKept, SideKept, HandsKept
<1>5. ArgsOf(p)' /\ HandOf(p)' /\ Searched(p)'
  BY <1>4, SideUnique DEF InGetnewbuf, Writer
<1>6. ASSUME NEW c \in Buf \ {t}, ~Has(t, "B_INVAL"), ~Has(c, "B_INVAL")
      PROVE  BufExt(t)' \cap BufExt(c)' = {}
  <2>1. Names(t, CurReq(p))
    BY <1>1, <1>6, DistinctConstants DEF UniqueInv, HandOf
  <2>2. BufExt(t)' = ReqExt(CurReq(p)) /\ BufExt(c)' = BufExt(c)
    BY <1>3, <2>1 DEF BufExt, ReqExt, Names, SameName
  <2>3. ~Overlaps(c, ReqExt(CurReq(p)))
    BY <1>1, <1>4, <1>6 DEF UniqueInv, Searched
  <2>. QED  BY <1>6, <2>2, <2>3 DEF Overlaps
<1>7. UniqueBlock'
  <2>. SUFFICES ASSUME NEW b \in Buf, NEW c \in Buf, b # c,
                       "B_INVAL" \notin buf'[b].flags, "B_INVAL" \notin buf'[c].flags,
                       buf'[b].vp # NoVnode
                PROVE  BufExt(b)' \cap BufExt(c)' = {}
    BY DEF UniqueBlock, Has
  <2>1. ~Has(b, "B_INVAL") /\ ~Has(c, "B_INVAL") /\ buf[b].vp # NoVnode
    BY <1>3 DEF SameName, Has
  <2>2. CASE b = t \/ c = t
    BY <1>6, <2>1, <2>2
  <2>3. CASE b # t /\ c # t
    BY <1>3, <2>1, <2>3 DEF UniqueInv, UniqueBlock, BufExt
  <2>. QED  BY <2>2, <2>3
<1>8. (\A b \in Buf : buf'[b].bufsize = BufSize0[b]) /\ EmptyInv'
  BY AllocbufFitsMem, SharesKept
<1>9. \A q \in Proc : ArgsOf(q)' /\ HandOf(q)' /\ Searched(q)'
  BY <1>4, <1>5, OthersUnique
<1>. QED  BY <1>7, <1>8, <1>9 DEF UniqueInv

(* The disk interrupt, which may come between a search and the end of      *)
(* allocbuf, maps nothing and changes no buffer that a process has in hand *)
(* but for flags.                                                          *)
LEMMA BiodoneUnique ==
    ASSUME Roomy, IInv, IInv', UniqueInv, NEW b \in Buf, NEW err \in BOOLEAN, Biodone(b, err)
    PROVE  UniqueInv'
<1>1. AllKept /\ buf \in [Buf -> BufRec]
  BY BiodoneKept DEF IInv, TypeOK
<1>2. UNCHANGED <<cpu, pc, call, req, rareq, bp, obp, ret>>
  BY DEF Biodone, args
<1>3. ASSUME NEW q \in Proc, NEW c \in Buf, bp[q] = c \/ obp[q] = c
      PROVE  SameName(c)
  <2>1. CASE c # b
    BY <1>1, <2>1 DEF Biodone, brelse, SameName
  <2>2. CASE c = b
    <3>1. ~Has(b, "B_ASYNC")
      BY <1>3, <2>2 DEF IInv, OwnInv, Owns
    <3>2. PICK x : x = {"B_DONE"} \cup (IF err THEN {"B_ERROR"} ELSE {})
      OBVIOUS
    <3>3. "B_ASYNC" \notin x /\ "B_INVAL" \notin x /\ "B_DELWRI" \notin x
      BY <3>2
    <3>4. PICK h : h = [buf[b] EXCEPT !.flags =
                         @ \cup {"B_DONE"} \cup (IF err THEN {"B_ERROR"} ELSE {})]
      OBVIOUS
    <3>5. /\ h.flags = buf[b].flags \cup x
          /\ h = [buf[b] EXCEPT !.flags = buf[b].flags \cup x]
      BY <1>1, <3>2, <3>4 DEF BufRec
    <3>6. "B_ASYNC" \notin h.flags
      BY <3>1, <3>3, <3>5 DEF Has
    <3>7. buf' = [buf EXCEPT ![b] = [h EXCEPT !.flags = @ \ {"B_WANTED"}]]
      BY <3>4, <3>6 DEF Biodone
    <3>. QED  BY <1>1, <2>2, <3>3, <3>5, <3>7 DEF SameName, BufRec
  <2>. QED  BY <2>1, <2>2
<1>4. ASSUME NEW q \in Proc PROVE ArgsOf(q)' /\ HandOf(q)' /\ Searched(q)'
  <2>1. ArgsOf(q) /\ HandOf(q) /\ Searched(q)
    BY DEF UniqueInv
  <2>2. CurReq(q)' = CurReq(q) /\ (InGetnewbuf(q)' <=> InGetnewbuf(q))
    BY <1>2 DEF CurReq, InGetnewbuf
  <2>3. ArgsOf(q)'
    BY <1>2, <2>1, <2>2 DEF ArgsOf, Fits, roundup
  <2>4. /\ bp[q] # NoBuf => bp[q] \in Buf /\ SameName(bp[q])
        /\ obp[q] # NoBuf => obp[q] \in Buf /\ SameName(obp[q])
    BY <1>3 DEF IInv, TypeOK
  <2>5. HandOf(q)'
    BY <1>2, <2>1, <2>2, <2>4 DEF HandOf, Names, SameName, Has
  <2>6. ASSUME pc[q] = "allocbuf", ~Has(bp[q], "B_INVAL")', NEW c \in Buf \ {bp[q]}
        PROVE  ~(Overlaps(c, ReqExt(CurReq(q)))')
    <3>1. bp[q] \in Buf /\ bp[q] # NoBuf
      BY <2>6, DistinctConstants DEF IInv, PcInv
    <3>2. ~Has(bp[q], "B_INVAL")
      BY <1>2, <2>4, <2>6, <3>1 DEF SameName, Has
    <3>3. CurReq(q).vp # NoVnode
      BY <2>1, <3>1, <3>2, CurReqFits DEF HandOf
    <3>4. ~Overlaps(c, ReqExt(CurReq(q)))
      BY <2>1, <2>6, <3>2 DEF Searched
    <3>5. PICK r \in Request0 : r = CurReq(q)
      BY DEF IInv, TypeOK, CurReq
    <3>6. ~(Overlaps(c, ReqExt(r))')
      BY <1>1, <3>3, <3>4, <3>5, SearchKept
    <3>. QED  BY <2>2, <3>5, <3>6 DEF Overlaps
  <2>7. Searched(q)'
    BY <1>2, <2>1, <2>6 DEF Searched
  <2>. QED  BY <2>3, <2>5, <2>7
<1>5. UniqueBlock'
  BY <1>1, UniqueKept DEF UniqueInv
<1>6. (\A c \in Buf : buf'[c].bufsize = BufSize0[c]) /\ EmptyInv'
  BY <1>1, SharesKept DEF AllKept, Keeps
<1>. QED  BY <1>4, <1>5, <1>6 DEF UniqueInv

(* Where memory is never moved, every step preserves the invariant.        *)
THEOREM NextUnique ==
    ASSUME Roomy PROVE IInv /\ IInv' /\ UniqueInv /\ [Next]_vars => UniqueInv'
<1>. SUFFICES ASSUME IInv, IInv', UniqueInv, [Next]_vars PROVE UniqueInv'
  OBVIOUS
<1>1. ASSUME NEW p \in Proc, NewCall(p) PROVE UniqueInv'
  BY <1>1, NewCallUnique
<1>2. ASSUME NEW p \in Proc, ClientStep(p) PROVE UniqueInv'
  BY <1>2, ClientUnique
<1>3. ASSUME NEW p \in Proc, KernelStep(p) PROVE UniqueInv'
  <2>1. ASSUME NEW b \in Buf,
               \/ WaitBusy(p, b) \/ WriteDirty(p, b) \/ GetblkHit(p, b)
               \/ GetnewbufPush(p, b) \/ GetblkNew(p, b) \/ GeteblkNew(p, b)
               \/ AllocbufTake(p, b) \/ AllocbufShrink(p, b)
               \/ OverlapInval(p, b) \/ FlushPush(p, b) \/ BinvalfreeInval(p, b)
        PROVE  UniqueInv'
    BY <2>1, BufferUnique, NoMemoryMoved
  <2>2. CASE GetblkMiss(p) \/ BreallocSame(p) \/ OverlapDone(p) \/ GotReady(p) \/ BreadDone(p)
    BY <2>2, BranchUnique DEF GetblkMiss, BreallocSame, OverlapDone, GotReady, BreadDone
  <2>3. CASE BlkflushDone(p) \/ BflushDone(p) \/ BinvalfreeDone(p)
    BY <2>3, ReturnUnique DEF BlkflushDone, BflushDone, BinvalfreeDone
  <2>4. CASE \/ BreallocShrink(p) \/ ReadAhead(p) \/ GetnewbufWait(p) \/ Biowait(p)
             \/ BreadaLast(p)
    BY <2>4, MoveUnique
  <2>5. CASE BwriteDone(p) \/ SetAge(p)
    BY <2>5, WriterUnique
  <2>6. CASE BreallocGrow(p) \/ BreadStart(p) \/ ReallocDone(p)
    BY <2>6, MarkUnique
  <2>7. CASE BreallocWrite(p) \/ BreadaStart(p) \/ ReadAheadGot(p)
    BY <2>7, GiveUnique
  <2>8. CASE AllocbufFits(p) \/ AllocbufGrow(p)
    BY <2>8, AllocbufFitsUnique, NoMemoryMoved
  <2>. QED  BY <1>3, <2>1, <2>2, <2>3, <2>4, <2>5, <2>6, <2>7, <2>8 DEF KernelStep
<1>4. CASE Interrupt
  BY <1>4, BiodoneUnique DEF Interrupt
<1>5. CASE UNCHANGED vars
  <2>1. UNCHANGED <<cpu, pc, call, req, rareq, bp, obp, ret, buf>>
    BY <1>5 DEF vars
  <2>2. UniqueBlock' /\ EmptyInv'
    BY <2>1 DEF UniqueInv, UniqueBlock, EmptyInv, BufExt, Has
  <2>3. ASSUME NEW q \in Proc PROVE ArgsOf(q)' /\ HandOf(q)' /\ Searched(q)'
    BY <2>1
    DEF UniqueInv, ArgsOf, HandOf, Searched, InGetnewbuf, CurReq, Names, Has, Overlaps,
        BufExt, Fits, roundup
  <2>. QED  BY <2>1, <2>2, <2>3 DEF UniqueInv
<1>. QED  BY <1>1, <1>2, <1>3, <1>4, <1>5 DEF Next

(* brealloc's "A disk block must be mapped by at most one buffer at any    *)
(* point in time" is true wherever what clients ask for fits the memory    *)
(* each header was given, for any number of processes and buffers, with    *)
(* I/O errors or without.  Run buf_dup shows it false where allocbuf has   *)
(* to look for memory.                                                     *)
THEOREM BlocksUnique == ASSUME Roomy PROVE Spec => []UniqueBlock
<1>1. Init => UniqueInv
  BY InitUnique
<1>2. IInv /\ IInv' /\ UniqueInv /\ [Next]_vars => UniqueInv'
  BY NextUnique
<1>3. UniqueInv => UniqueBlock
  BY DEF UniqueInv
<1>. QED  BY Inductive, <1>1, <1>2, <1>3, PTL DEF Spec
=============================================================================
