-------------------------- MODULE BufferDataProofs --------------------------
(***************************************************************************)
(* Proof that the data are right: bread hands out the last value written,  *)
(* no write is lost, and blkflush's callers find their data on the disk.   *)
(*                                                                         *)
(* The argument: the last value of a fragment is on the disk or in the one *)
(* buffer that maps it and waits to be written (NoLostWrite).  A buffer    *)
(* that is not dirty may therefore be read from the disk, reused or cut; a *)
(* dirty one is written first, or only grows.  What has to be ruled out is *)
(* a dirty buffer that a read makes longer: brealloc clears its B_DONE,    *)
(* and bread would read the disk over what was never written.  Nothing in  *)
(* vfs_bio.c prevents that; the file system does, which computes the size  *)
(* of a block from the inode it has locked.                                *)
(***************************************************************************)
EXTENDS BufferUniqueProofs

(* What the clients have to keep to: a read never asks for more of a block *)
(* than a delayed write of it has.                                         *)
WholeReads ==
    \A p \in Proc :
       pc[p] = "brealloc" /\ call[p] \in ReadCalls /\ Has(bp[p], "B_DELWRI")
          => CurReq(p).size <= buf[bp[p]].bcount

(* What they read is on the disk at the start.                             *)
InFile == \A r \in ReadReqs \cup RaReqs : ReqExt(r) \subseteq Vnode \X BlkNo

(* What b has in memory will be written.                                   *)
Pending(b) ==
    \/ Has(b, "B_DELWRI")
    \/ b \in io /\ ~Has(b, "B_READ")
    \/ \E p \in Proc : bp[p] = b /\ call[p] = "realloc"

(* brealloc has cut b's data already, allocbuf not yet its size.           *)
Cut(b) == \E p \in Proc : bp[p] = b /\ pc[p] = "allocbuf"

(* b's data are there.                                                     *)
Read(b) == Has(b, "B_DONE") /\ ~Has(b, "B_ERROR") /\ ~Has(b, "B_INVAL")

(* What the flags of b say of its memory: a dirty buffer has its data and  *)
(* is not being read, one that is done has the last values, one that is    *)
(* being read will have them.                                              *)
BufData(b) ==
    /\ Has(b, "B_DELWRI") => /\ ~Has(b, "B_INVAL") /\ b \notin io
                             /\ Has(b, "B_DONE") \/ Growing(b)
    /\ b \in io => ~Has(b, "B_INVAL")
    /\ Has(b, "B_NOCACHE") => /\ Has(b, "B_BUSY") /\ ~Has(b, "B_DELWRI")
                              /\ \A p \in Proc : bp[p] # b /\ obp[p] # b
    /\ Maps(buf[b]) /\ Has(b, "B_DONE") /\ ~Has(b, "B_ERROR") /\ ~Cut(b)
          => BufExt(b) \subseteq mem[b]
    /\ b \in io => BufExt(b) \subseteq IF Has(b, "B_READ") THEN disk ELSE mem[b]

NotLonger(p) == buf[bp[p]].bcount <= CurReq(p).size

InOverlap(p) == pc[p] = "overlap" \/ (pc[p] \in Writer /\ ret[p] = "overlap")

(* realloccg's buffer has what it read, whatever brealloc does to it.      *)
Regrown(p) ==
    /\ bp[p] # NoBuf
    /\ rareq[p].size <= buf[bp[p]].bcount /\ buf[bp[p]].bcount <= req[p].size
    /\ Ext(req[p].vp, req[p].blkno, rareq[p].size) \subseteq mem[bp[p]]

(* The buffers in p's hand are valid, and a dirty one never loses a part.  *)
ProcData(p) ==
    /\ bp[p] # NoBuf /\ call[p] # "geteblk" => ~Has(bp[p], "B_INVAL")
    /\ obp[p] # NoBuf => ~Has(obp[p], "B_INVAL")
    /\ pc[p] = "brealloc" => Has(bp[p], "B_DONE") \/ ~Has(bp[p], "B_DELWRI")
    /\ InOverlap(p) => ~Has(bp[p], "B_DONE")
    /\ InOverlap(p) \/ pc[p] = "allocbuf" => NotLonger(p) \/ ~Has(bp[p], "B_DELWRI")
    /\ pc[p] = "allocbuf" /\ Read(bp[p]) => ReqExt(CurReq(p)) \subseteq mem[bp[p]]
    /\ pc[p] = "hold" /\ call[p] \in {"bread", "realloc"} => Has(bp[p], "B_DONE")
    /\ call[p] = "realloc" => Regrown(p)

DataInv ==
    /\ NoLostWrite
    /\ \A b \in Buf : BufData(b)
    /\ \A p \in Proc : ProcData(p)

(* What is proved together.                                                *)
AllInv == IInv /\ PanicInv /\ UniqueInv /\ DataInv

-----------------------------------------------------------------------------
(* What a step has to leave alone                                          *)

SameFlag(c, f) == f \in buf'[c].flags <=> f \in buf[c].flags

(* b shows its owner what it showed it.                                    *)
SameView(b) ==
    /\ buf'[b].vp = buf[b].vp /\ buf'[b].blkno = buf[b].blkno
    /\ buf'[b].bcount = buf[b].bcount
    /\ SameFlag(b, "B_INVAL") /\ SameFlag(b, "B_DONE") /\ SameFlag(b, "B_DELWRI")
    /\ SameFlag(b, "B_ERROR")
    /\ mem[b] \subseteq mem'[b]

(* Apart from b only the fragments of X change, which no other buffer      *)
(* maps.                                                                   *)
Elsewhere(b, X) ==
    /\ \A c \in Buf \ {b} : /\ buf'[c] = buf[c]
                            /\ c \in io' <=> c \in io
                            /\ mem[c] \ X \subseteq mem'[c]
                            /\ ~Has(c, "B_INVAL") => BufExt(c) \cap X = {}
    /\ disk \ X \subseteq disk'

(* What b had to write, and the fragments of X, are still kept.            *)
FragsKept(b, X) ==
    \A f \in Vnode \X BlkNo :
       f \in X \/ (f \in mem[b] /\ f \in BufExt(b) /\ Pending(b))
          => f \in disk' \/ (f \in mem'[b] /\ f \in BufExt(b)' /\ Pending(b)')

(* p keeps in hand what it has besides b.                                  *)
HandKept(p, b) ==
    /\ \A c \in Buf \ {b} : bp[p] = c \/ bp'[p] = c
          => bp'[p] = bp[p] /\ call'[p] = call[p] /\ pc[p] # "allocbuf"
    /\ \A c \in Buf \ {b} : obp'[p] = c => obp[p] = c

(* The other processes that have b in hand see what they saw; one that     *)
(* waits for it may see it done.                                           *)
OthersSee(p, b) ==
    \A q \in Proc \ {p} :
       /\ bp[q] = b => SameFlag(b, "B_INVAL") /\ (pc[q] = "biowait" \/ SameView(b))
       /\ obp[q] = b => SameFlag(b, "B_INVAL")
       /\ pc[q] = "allocbuf" /\ bp[q] # b => mem[bp[q]] \subseteq mem'[bp[q]]

(* No fragment loses its last value.                                       *)
LEMMA NoLostFrame ==
    ASSUME DataInv, NEW p, NEW b, NEW X, OthersKept(p),
           Elsewhere(b, X), IF b \in Buf THEN FragsKept(b, X) ELSE X = {},
           p \in Proc => HandKept(p, b)
    PROVE  NoLostWrite'
<1>1. ASSUME NEW f \in Vnode \X BlkNo
      PROVE  f \in disk' \/ \E c \in Buf : f \in mem'[c] /\ f \in BufExt(c)' /\ Pending(c)'
  <2>1. f \in disk \/ \E c \in Buf : f \in mem[c] /\ f \in BufExt(c) /\ Pending(c)
    BY DEF DataInv, NoLostWrite, Pending
  <2>2. CASE f \in X
    BY <2>2 DEF FragsKept
  <2>3. CASE f \notin X /\ f \in disk
    BY <2>3 DEF Elsewhere
  <2>4. ASSUME f \notin X, NEW c \in Buf, f \in mem[c], f \in BufExt(c), Pending(c)
        PROVE  f \in disk' \/ \E d \in Buf : f \in mem'[d] /\ f \in BufExt(d)' /\ Pending(d)'
    <3>1. CASE c = b
      BY <2>4, <3>1 DEF FragsKept
    <3>2. CASE c # b
      <4>1. buf'[c] = buf[c] /\ (c \in io' <=> c \in io) /\ f \in mem'[c]
        BY <2>4, <3>2 DEF Elsewhere
      <4>2. f \in BufExt(c)'
        BY <2>4, <4>1 DEF BufExt
      <4>3. ASSUME NEW q \in Proc, bp[q] = c, call[q] = "realloc"
            PROVE  bp'[q] = c /\ call'[q] = "realloc"
        BY <3>2, <4>3 DEF OthersKept, HandKept
      <4>4. Pending(c)'
        BY <2>4, <4>1, <4>3 DEF Pending, Has
      <4>. QED  BY <4>1, <4>2, <4>4
    <3>. QED  BY <3>1, <3>2
  <2>. QED  BY <2>1, <2>2, <2>3, <2>4
<1>. QED  BY <1>1 DEF NoLostWrite, Pending

(* The flags of the other buffers stay true.                               *)
LEMMA BufFrame ==
    ASSUME DataInv, NEW p, NEW b, NEW X, OthersKept(p),
           Elsewhere(b, X), p \in Proc => HandKept(p, b), NEW c \in Buf \ {b}
    PROVE  BufData(c)'
<1>1. /\ BufData(c) /\ buf'[c] = buf[c] /\ (c \in io' <=> c \in io)
      /\ mem[c] \ X \subseteq mem'[c] /\ disk \ X \subseteq disk'
      /\ ~Has(c, "B_INVAL") => BufExt(c) \cap X = {}
  BY DEF DataInv, Elsewhere
<1>2. ASSUME NEW q \in Proc, bp[q] = c
      PROVE  bp'[q] = c /\ call'[q] = call[q] /\ (pc[q] = "allocbuf" => pc'[q] = "allocbuf")
  BY <1>2 DEF OthersKept, HandKept
<1>3. ASSUME NEW q \in Proc, bp'[q] = c \/ obp'[q] = c PROVE bp[q] = c \/ obp[q] = c
  BY <1>3 DEF OthersKept, HandKept
<1>4. (Growing(c) => Growing(c)') /\ (Cut(c) => Cut(c)')
  BY <1>2 DEF Growing, Cut
<1>5. /\ BufExt(c)' = BufExt(c) /\ (Maps(buf[c])' <=> Maps(buf[c]))
      /\ \A f \in Flag : Has(c, f)' <=> Has(c, f)
  BY <1>1 DEF BufExt, Has, Maps
<1>6. Maps(buf[c]) \/ c \in io => BufExt(c) \cap X = {}
  BY <1>1 DEF BufData, Maps, Has
<1>7. /\ Maps(buf[c])' /\ Has(c, "B_DONE")' /\ ~Has(c, "B_ERROR")' /\ ~Cut(c)'
         => BufExt(c)' \subseteq mem'[c]
  <2>1. Has(c, "B_DONE")' => Has(c, "B_DONE")
    BY <1>5 DEF Flag
  <2>2. Has(c, "B_ERROR") => Has(c, "B_ERROR")'
    BY <1>5 DEF Flag
  <2>. QED  BY <1>1, <1>4, <1>5, <1>6, <2>1, <2>2 DEF BufData
<1>8. c \in io' => BufExt(c)' \subseteq IF Has(c, "B_READ")' THEN disk' ELSE mem'[c]
  <2>1. Has(c, "B_READ")' <=> Has(c, "B_READ")
    BY <1>5 DEF Flag
  <2>2. CASE Has(c, "B_READ")
    BY <1>1, <1>5, <1>6, <2>1, <2>2 DEF BufData
  <2>3. CASE ~Has(c, "B_READ")
    BY <1>1, <1>5, <1>6, <2>1, <2>3 DEF BufData
  <2>. QED  BY <2>2, <2>3
<1>9. Has(c, "B_DELWRI")' => /\ ~Has(c, "B_INVAL")' /\ c \notin io'
                             /\ Has(c, "B_DONE")' \/ Growing(c)'
  BY <1>1, <1>4 DEF BufData, Has
<1>10. Has(c, "B_NOCACHE")' => /\ Has(c, "B_BUSY")' /\ ~Has(c, "B_DELWRI")'
                               /\ \A q \in Proc : bp'[q] # c /\ obp'[q] # c
  BY <1>1, <1>3 DEF BufData, Has
<1>11. c \in io' => ~Has(c, "B_INVAL")'
  BY <1>1 DEF BufData, Has
<1>. QED  BY <1>7, <1>8, <1>9, <1>10, <1>11 DEF BufData

(* Every part of an extent that starts where it does is inside it.         *)
LEMMA ExtPart ==
    ASSUME NEW v, NEW k \in Nat, NEW n \in Nat, NEW m \in Nat, n <= m
    PROVE  Ext(v, k, n) \subseteq Ext(v, k, m)
<1>1. k .. k + n - 1 \subseteq k .. k + m - 1
  OBVIOUS
<1>. QED  BY <1>1 DEF Ext

(* What realloccg read is a part of what its buffer maps.                  *)
LEMMA RegrownPart ==
    ASSUME AllInv, NEW p \in Proc, call[p] = "realloc"
    PROVE  /\ bp[p] \in Buf /\ ~Has(bp[p], "B_INVAL")
           /\ Ext(req[p].vp, req[p].blkno, rareq[p].size) \subseteq BufExt(bp[p])
<1>1. ProcData(p) /\ HandOf(p) /\ bp[p] \in Buf \cup {NoBuf}
  BY DEF AllInv, DataInv, UniqueInv, IInv, TypeOK
<1>2. bp[p] \in Buf /\ ~Has(bp[p], "B_INVAL") /\ Names(bp[p], req[p])
  BY <1>1 DEF ProcData, Regrown, HandOf, CurReq
<1>3. /\ req[p].blkno \in Nat /\ rareq[p].size \in Nat /\ buf[bp[p]].bcount \in Nat
      /\ rareq[p].size <= buf[bp[p]].bcount
  BY <1>1, <1>2 DEF AllInv, IInv, TypeOK, Request0, BufRec, ProcData, Regrown
<1>. QED  BY <1>2, <1>3, ExtPart DEF BufExt, Names

(* What the other processes know stays true.                               *)
LEMMA ProcFrame ==
    ASSUME AllInv, NEW p, NEW b, NEW X, OthersKept(p),
           Elsewhere(b, X), OthersSee(p, b), NEW q \in Proc \ {p}
    PROVE  ProcData(q)'
<1>1. ProcData(q) /\ bp[q] \in Buf \cup {NoBuf} /\ obp[q] \in Buf \cup {NoBuf}
  BY DEF AllInv, DataInv, IInv, TypeOK
<1>2. /\ pc'[q] = pc[q] /\ ret'[q] = ret[q] /\ call'[q] = call[q] /\ req'[q] = req[q]
      /\ rareq'[q] = rareq[q] /\ bp'[q] = bp[q] /\ obp'[q] = obp[q]
      /\ CurReq(q)' = CurReq(q) /\ (InOverlap(q)' <=> InOverlap(q))
  BY DEF OthersKept, CurReq, InOverlap
<1>3. ASSUME NEW c \in Buf, bp[q] = c \/ obp[q] = c
      PROVE  SameFlag(c, "B_INVAL")
  BY <1>3 DEF Elsewhere, OthersSee, SameFlag
<1>4. ASSUME bp[q] \in Buf, pc[q] # "biowait"
      PROVE  /\ buf'[bp[q]].bcount = buf[bp[q]].bcount
             /\ SameFlag(bp[q], "B_DONE") /\ SameFlag(bp[q], "B_DELWRI")
             /\ SameFlag(bp[q], "B_ERROR")
  BY <1>4 DEF Elsewhere, OthersSee, SameView, SameFlag
<1>5. pc[q] = "biowait" => call[q] = "bread"
  BY DEF AllInv, PanicInv, CallBy
<1>6. /\ bp[q] # NoBuf /\ call[q] # "geteblk" => ~Has(bp[q], "B_INVAL")'
      /\ obp[q] # NoBuf => ~Has(obp[q], "B_INVAL")'
  BY <1>1, <1>2, <1>3 DEF ProcData, Has, SameFlag
<1>7. pc[q] \in {"brealloc", "overlap", "allocbuf", "hold"} \/ InOverlap(q) => bp[q] \in Buf
  BY DEF AllInv, IInv, PcInv, InOverlap, Writer
<1>8. /\ pc[q] = "brealloc" => Has(bp[q], "B_DONE")' \/ ~Has(bp[q], "B_DELWRI")'
      /\ InOverlap(q) => ~Has(bp[q], "B_DONE")'
      /\ InOverlap(q) \/ pc[q] = "allocbuf" => NotLonger(q)' \/ ~Has(bp[q], "B_DELWRI")'
      /\ pc[q] = "hold" /\ call[q] \in {"bread", "realloc"} => Has(bp[q], "B_DONE")'
  BY <1>1, <1>2, <1>4, <1>7 DEF ProcData, Has, SameFlag, InOverlap, Writer, NotLonger
<1>9. pc[q] = "allocbuf" /\ Read(bp[q])' => ReqExt(CurReq(q)) \subseteq mem'[bp[q]]
  <2>1. pc[q] = "allocbuf" => mem[bp[q]] \subseteq mem'[bp[q]]
    BY DEF OthersSee, SameView
  <2>. QED  BY <1>1, <1>2, <1>3, <1>4, <1>7, <2>1 DEF ProcData, Read, Has, SameFlag
<1>10. ASSUME call[q] = "realloc" PROVE Regrown(q)'
  <2>1. /\ bp[q] \in Buf /\ ~Has(bp[q], "B_INVAL")
        /\ Ext(req[q].vp, req[q].blkno, rareq[q].size) \subseteq BufExt(bp[q])
    BY <1>10, RegrownPart
  <2>2. Regrown(q) /\ pc[q] # "biowait"
    BY <1>1, <1>5, <1>10 DEF ProcData
  <2>3. Ext(req[q].vp, req[q].blkno, rareq[q].size) \subseteq mem'[bp[q]]
    <3>1. CASE bp[q] = b
      BY <2>2, <3>1 DEF Regrown, OthersSee, SameView
    <3>2. CASE bp[q] # b
      <4>1. mem[bp[q]] \ X \subseteq mem'[bp[q]] /\ BufExt(bp[q]) \cap X = {}
        BY <2>1, <3>2 DEF Elsewhere
      <4>. QED  BY <2>1, <2>2, <4>1 DEF Regrown
    <3>. QED  BY <3>1, <3>2
  <2>. QED  BY <1>2, <1>4, <2>1, <2>2, <2>3 DEF Regrown
<1>. QED  BY <1>2, <1>6, <1>8, <1>9, <1>10 DEF ProcData, Read, Has

(* A step that changes b and the fragments of X preserves the invariant if *)
(* it preserves it for b and p.  (p is NoProc for the disk interrupt.)     *)
LEMMA DataFrame ==
    ASSUME AllInv, NEW p, NEW b \in Buf, NEW X, OthersKept(p),
           Elsewhere(b, X), FragsKept(b, X), OthersSee(p, b),
           p \in Proc => HandKept(p, b) /\ ProcData(p)',
           BufData(b)'
    PROVE  DataInv'
<1>1. DataInv
  BY DEF AllInv
<1>2. NoLostWrite'
  BY <1>1, NoLostFrame
<1>3. \A c \in Buf : BufData(c)'
  BY <1>1, BufFrame
<1>4. \A q \in Proc : ProcData(q)'
  BY ProcFrame
<1>. QED  BY <1>2, <1>3, <1>4 DEF DataInv

(* A step of p that changes no buffer and no data.                         *)
LEMMA DataStill ==
    ASSUME AllInv, NEW p \in Proc, OthersKept(p), UNCHANGED <<buf, io, mem, disk>>,
           HandKept(p, NoBuf), ProcData(p)'
    PROVE  DataInv'
<1>1. DataInv /\ NoBuf \notin Buf
  BY DistinctConstants DEF AllInv
<1>2. Elsewhere(NoBuf, {}) /\ OthersSee(p, NoBuf)
  BY DEF Elsewhere, OthersSee, SameView, SameFlag
<1>3. NoLostWrite'
  BY <1>1, <1>2, NoLostFrame
<1>4. \A c \in Buf : BufData(c)'
  BY <1>1, <1>2, BufFrame
<1>5. \A q \in Proc : ProcData(q)'
  BY <1>2, ProcFrame
<1>. QED  BY <1>3, <1>4, <1>5 DEF DataInv

(* A step of p that changes one buffer, which no other process has in      *)
(* hand, and no data elsewhere.                                            *)
LEMMA DataOne ==
    ASSUME AllInv, NEW p \in Proc, NEW b \in Buf, cpu \in {p, NoProc}, OthersKept(p),
           \A c \in Buf \ {b} : buf'[c] = buf[c] /\ mem'[c] = mem[c],
           disk' = disk, \A c \in Buf \ {b} : c \in io' <=> c \in io,
           \A q \in Proc \ {p} : bp[q] # b /\ obp[q] # b,
           Pending(b) => Pending(b)' /\ mem[b] \cap BufExt(b) \subseteq mem'[b] \cap BufExt(b)',
           HandKept(p, b), ProcData(p)', BufData(b)'
    PROVE  DataInv'
<1>1. ASSUME NEW q \in Proc \ {p} PROVE pc[q] # "allocbuf"
  BY DistinctConstants DEF AllInv, UniqueInv, Searched
<1>2. Elsewhere(b, {}) /\ OthersSee(p, b) /\ FragsKept(b, {})
  BY <1>1 DEF Elsewhere, OthersSee, FragsKept
<1>. QED  BY <1>2, DataFrame

-----------------------------------------------------------------------------
(* Init, and the steps that change no buffer                               *)

(* At the start everything is on the disk.                                 *)
LEMMA InitData == Init => DataInv
<1>. SUFFICES ASSUME Init PROVE DataInv
  OBVIOUS
<1>1. ASSUME NEW b \in Buf
      PROVE  "B_INVAL" \in buf[b].flags /\ "B_DELWRI" \notin buf[b].flags
             /\ "B_NOCACHE" \notin buf[b].flags
  <2>. DEFINE h == [flags |-> {"B_BUSY", "B_INVAL"}, vp |-> NoVnode, blkno |-> 0,
                    bcount |-> 0, bufsize |-> BufSize0[b], queue |-> "none"]
  <2>1. h \in BufRec /\ h.flags = {"B_BUSY", "B_INVAL"}
    BY ConstantTypes DEF BufRec, Flag, Queue
  <2>2. buf[b] = Released(h)
    BY DEF Init
  <2>. HIDE DEF h
  <2>. QED  BY <2>1, <2>2 DEF Released, BufRec
<1>2. ASSUME NEW b \in Buf PROVE BufData(b)
  BY <1>1 DEF BufData, Has, Maps, Init
<1>3. ASSUME NEW p \in Proc PROVE ProcData(p)
  BY DEF ProcData, InOverlap, Writer, Init
<1>4. NoLostWrite
  BY DEF NoLostWrite, Init
<1>. QED  BY <1>2, <1>3, <1>4 DEF DataInv

(* A process without a buffer that is not at brealloc has nothing to keep. *)
LEMMA EmptyHanded ==
    ASSUME NEW p \in Proc, bp'[p] = NoBuf, obp'[p] = NoBuf, call'[p] # "realloc",
           pc'[p] \notin {"brealloc", "overlap", "allocbuf", "hold"},
           ~(pc'[p] \in Writer /\ ret'[p] = "overlap")
    PROVE  ProcData(p)'
BY DEF ProcData, InOverlap

(* A client's call, and the end of a flushing loop.                        *)
LEMMA NewCallData ==
    ASSUME AllInv, NEW p \in Proc,
           NewCall(p) \/ BlkflushDone(p) \/ BflushDone(p) \/ BinvalfreeDone(p)
    PROVE  DataInv'
<1>0. pc \in [Proc -> Label] /\ call \in [Proc -> Call] /\ req \in [Proc -> Request0]
      /\ rareq \in [Proc -> Request0]
  BY DEF AllInv, IInv, TypeOK
<1>1. ASSUME NEW c, NEW r, NEW l, Enter(p, c, r, l), c # "realloc",
             l \in {"getblk", "rahead", "getnewbuf"} \cup Flusher,
             \A q \in Proc \ {p} : rareq'[q] = rareq[q]
      PROVE  DataInv'
  <2>1. /\ OthersKept(p) /\ UNCHANGED <<buf, io, mem, disk, bp, obp>>
        /\ bp[p] = NoBuf /\ obp[p] = NoBuf /\ pc'[p] = l /\ call'[p] = c
    BY <1>0, <1>1, DistinctConstants
    DEF AllInv, IInv, PcInv, Enter, At, Goto, OthersKept, data
  <2>2. HandKept(p, NoBuf)
    BY <2>1, DistinctConstants DEF HandKept
  <2>3. ProcData(p)'
    BY <1>1, <2>1, EmptyHanded DEF Flusher, Writer
  <2>. QED  BY <2>1, <2>2, <2>3, DataStill
<1>2. CASE NewCall(p)
  <2>1. ASSUME NEW r \in ReadReqs, bread(p, r) PROVE DataInv'
    BY <1>1, <2>1 DEF bread
  <2>2. ASSUME NEW r \in ReadReqs, NEW ra \in RaReqs, breada(p, r, ra) PROVE DataInv'
    BY <1>0, <1>1, <2>2 DEF breada
  <2>3. ASSUME NEW r \in WriteReqs, getblk(p, r) PROVE DataInv'
    BY <1>1, <2>3 DEF getblk
  <2>4. ASSUME NEW n \in EblkSizes, geteblk(p, n) PROVE DataInv'
    BY <1>1, <2>4 DEF geteblk
  <2>5. ASSUME NEW r \in FlushReqs, blkflush(p, r) PROVE DataInv'
    BY <1>1, <2>5 DEF blkflush, Flusher
  <2>6. ASSUME NEW v \in FlushVnodes, bflush(p, v) PROVE DataInv'
    BY <1>1, <2>6 DEF bflush, Flusher
  <2>7. ASSUME NEW v \in InvalVnodes, binvalfree(p, v) PROVE DataInv'
    BY <1>1, <2>7 DEF binvalfree, Flusher
  <2>. QED  BY <1>2, <2>1, <2>2, <2>3, <2>4, <2>5, <2>6, <2>7 DEF NewCall
<1>3. CASE BlkflushDone(p) \/ BflushDone(p) \/ BinvalfreeDone(p)
  <2>1. /\ OthersKept(p) /\ UNCHANGED <<buf, io, mem, disk, bp, obp>>
        /\ bp[p] = NoBuf /\ obp[p] = NoBuf /\ pc'[p] = "idle" /\ call'[p] = "none"
    BY <1>0, <1>3, DistinctConstants
    DEF AllInv, IInv, PcInv, BlkflushDone, BflushDone, BinvalfreeDone, Return, Done, At, Goto,
        OthersKept, data, Flusher
  <2>2. HandKept(p, NoBuf)
    BY <2>1, DistinctConstants DEF HandKept
  <2>3. ProcData(p)'
    BY <2>1, EmptyHanded DEF Writer
  <2>. QED  BY <2>1, <2>2, <2>3, DataStill
<1>. QED  BY <1>2, <1>3

(* The steps that only move a process on.                                  *)
LEMMA MoveData ==
    ASSUME AllInv, NEW p \in Proc,
           \/ GetblkMiss(p) \/ BreallocSame(p) \/ OverlapDone(p) \/ GotReady(p)
           \/ BreadDone(p) \/ GetnewbufWait(p) \/ Biowait(p)
    PROVE  DataInv'
<1>0. ProcData(p) /\ pc \in [Proc -> Label]
  BY DEF AllInv, DataInv, IInv, TypeOK
<1>1. UNCHANGED <<call, req, rareq, bp, obp, ret, buf, io, mem, disk>>
  BY DEF GetblkMiss, BreallocSame, OverlapDone, GotReady, BreadDone, GetnewbufWait, Biowait,
         Branch, args, data
<1>2. OthersKept(p)
  BY <1>0, <1>1
  DEF GetblkMiss, BreallocSame, OverlapDone, GotReady, BreadDone, GetnewbufWait, Biowait,
      Branch, Goto, Sleep, OthersKept
<1>3. \/ /\ pc[p] \in {"getblk", "brealloc", "getnewbuf", "biowait"} \/ pc[p] \in Writer
         /\ pc'[p] \in {"getnewbuf", "got", "biowait"} \/ (pc'[p] = pc[p] /\ pc[p] \in Writer)
      \/ pc[p] = "overlap" /\ pc'[p] = "allocbuf"
      \/ /\ pc[p] \in {"got", "biowait"} /\ pc'[p] = "hold"
         /\ call[p] \in {"bread", "realloc"} => Has(bp[p], "B_DONE")
  BY <1>0
  DEF GetblkMiss, BreallocSame, OverlapDone, GotReady, BreadDone, GetnewbufWait, Biowait,
      Branch, Goto, Sleep, At, Writer
<1>4. HandKept(p, NoBuf)
  BY <1>1, <1>3 DEF HandKept, Writer
<1>5. ProcData(p)'
  <2>1. Regrown(p)' <=> Regrown(p)
    BY <1>1 DEF Regrown
  <2>2. /\ CurReq(p)' = CurReq(p) /\ (NotLonger(p)' <=> NotLonger(p))
        /\ \A f \in Flag : Has(bp[p], f)' <=> Has(bp[p], f)
    BY <1>1 DEF CurReq, Has, NotLonger
  <2>. QED  BY <1>0, <1>1, <1>3, <2>1, <2>2 DEF ProcData, InOverlap, Writer, Read, Has
<1>. QED  BY <1>1, <1>2, <1>4, <1>5, DataStill

-----------------------------------------------------------------------------
(* What the invariant says of the buffer in a process's hand               *)

(* It is in one hand and valid, and carries the block of the call.         *)
LEMMA InHand ==
    ASSUME AllInv, Roomy, NEW p \in Proc, NEW b \in Buf, bp[p] = b
    PROVE  /\ \A q \in Proc \ {p} : bp[q] # b /\ obp[q] # b
           /\ obp[p] # b
           /\ Growing(b) <=> call[p] \in GrowCalls
           /\ Cut(b) <=> pc[p] = "allocbuf"
           /\ pc[p] # "biowait" => b \notin io
           /\ ~Has(b, "B_NOCACHE")
           /\ Pending(b) <=> \/ Has(b, "B_DELWRI") \/ call[p] = "realloc"
                             \/ b \in io /\ ~Has(b, "B_READ")
           /\ call[p] # "geteblk" =>
                 ~Has(b, "B_INVAL") /\ Names(b, CurReq(p)) /\ buf[b].vp # NoVnode
<1>1. /\ \A q \in Proc \ {p} : bp[q] # b /\ obp[q] # b
      /\ obp[p] # b
      /\ Growing(b) <=> call[p] \in GrowCalls
      /\ pc[p] # "biowait" => b \notin io
  BY OwnFacts DEF AllInv
<1>2. /\ Cut(b) <=> pc[p] = "allocbuf"
      /\ Pending(b) <=> \/ Has(b, "B_DELWRI") \/ call[p] = "realloc"
                        \/ b \in io /\ ~Has(b, "B_READ")
  BY <1>1 DEF Cut, Pending
<1>3. ~Has(b, "B_NOCACHE")
  BY DEF AllInv, DataInv, BufData
<1>4. ASSUME call[p] # "geteblk"
      PROVE  ~Has(b, "B_INVAL") /\ Names(b, CurReq(p)) /\ CurReq(p).vp # NoVnode
  BY <1>4, CurReqFits, DistinctConstants DEF AllInv, DataInv, ProcData, UniqueInv, HandOf
<1>. QED  BY <1>1, <1>2, <1>3, <1>4 DEF Names

(* Once allocbuf is through, it maps what the call asks for.               *)
LEMMA Sized ==
    ASSUME AllInv, Roomy, NEW p \in Proc, NEW b \in Buf, bp[p] = b,
           call[p] # "geteblk", pc[p] \in {"got", "biowait", "hold"}
    PROVE  /\ buf[b].bcount = CurReq(p).size /\ BufExt(b) = ReqExt(CurReq(p))
           /\ Maps(buf[b])
<1>1. buf[b].bcount = CurReq(p).size
  BY DEF AllInv, PanicInv, HeldBy
<1>2. ~Has(b, "B_INVAL") /\ Names(b, CurReq(p)) /\ buf[b].vp # NoVnode
  BY InHand
<1>3. CurReq(p).size # 0
  BY DEF AllInv, IInv, TypeOK, CurReq, Request0
<1>. QED  BY <1>1, <1>2, <1>3 DEF Names, BufExt, ReqExt, Maps, Has

(* The flags of a buffer that a step leaves alone, but for its owner.      *)
LEMMA SameBufData ==
    ASSUME NEW b \in Buf, BufData(b), UNCHANGED <<buf, io, mem, disk>>,
           Growing(b) => Growing(b)', Cut(b) => Cut(b)',
           Has(b, "B_NOCACHE") => \A p \in Proc : bp'[p] # b /\ obp'[p] # b
    PROVE  BufData(b)'
<1>1. /\ BufExt(b)' = BufExt(b) /\ (Maps(buf[b])' <=> Maps(buf[b]))
      /\ \A f : Has(b, f)' <=> Has(b, f)
  BY DEF BufExt, Has, Maps
<1>. QED  BY <1>1 DEF BufData

(* breada's and realloccg's steps that change no buffer.                   *)
LEMMA StepOnData ==
    ASSUME AllInv, Roomy, NEW p \in Proc,
           ReadAhead(p) \/ BreadaLast(p) \/ \E g \in GrowBy : Realloc(p, g)
    PROVE  DataInv'
<1>0. /\ ProcData(p) /\ ArgsOf(p) /\ pc \in [Proc -> Label] /\ call \in [Proc -> Call]
      /\ req \in [Proc -> Request0] /\ rareq \in [Proc -> Request0]
      /\ bp \in [Proc -> Buf \cup {NoBuf}] /\ obp \in [Proc -> Buf \cup {NoBuf}]
  BY DEF AllInv, DataInv, UniqueInv, IInv, TypeOK
<1>1. CASE ReadAhead(p)
  <2>1. /\ OthersKept(p) /\ UNCHANGED <<buf, io, mem, disk, bp, obp>>
        /\ bp[p] = NoBuf /\ pc'[p] \in {"ralast", "getblk"}
        /\ call'[p] = call[p] \/ call'[p] = "readahead"
    BY <1>0, <1>1, DistinctConstants
    DEF AllInv, IInv, PcInv, ReadAhead, At, Goto, OthersKept, data
  <2>2. HandKept(p, NoBuf)
    BY <2>1, DistinctConstants DEF HandKept
  <2>3. call'[p] # "realloc"
    BY <1>0, <2>1 DEF ProcData, Regrown
  <2>4. ProcData(p)'
    BY <1>0, <2>1, <2>3 DEF ProcData, InOverlap, Writer, Has
  <2>. QED  BY <2>1, <2>2, <2>4, DataStill
<1>2. CASE BreadaLast(p)
  <2>1. /\ OthersKept(p) /\ UNCHANGED <<buf, io, mem, disk>>
        /\ bp[p] = NoBuf /\ call'[p] = "bread" /\ cpu \in {p, NoProc}
        /\ pc[p] = "ralast"
        /\ IF obp[p] = NoBuf THEN pc'[p] = "getblk" /\ bp'[p] = NoBuf /\ obp'[p] = NoBuf
                             ELSE pc'[p] = "biowait" /\ bp'[p] = obp[p] /\ obp'[p] = NoBuf
    BY <1>0, <1>2, DistinctConstants
    DEF AllInv, IInv, PcInv, BreadaLast, At, Goto, OthersKept, data
  <2>2. CASE obp[p] = NoBuf
    <3>1. HandKept(p, NoBuf)
      BY <2>1, <2>2, DistinctConstants DEF HandKept
    <3>2. ProcData(p)'
      BY <2>1, <2>2, EmptyHanded DEF Writer
    <3>. QED  BY <2>1, <3>1, <3>2, DataStill
  <2>3. CASE obp[p] # NoBuf
    <3>1. PICK b \in Buf : b = obp[p] /\ Owns(p, b) /\ \A q \in Proc : bp[q] # b
      BY <1>0, <2>3 DEF AllInv, IInv, OwnInv, Owns
    <3>2. \A q \in Proc \ {p} : bp[q] # b /\ obp[q] # b
      BY <3>1 DEF AllInv, IInv, OwnInv, Owns
    <3>3. BufData(b) /\ ~Growing(b) /\ ~Cut(b) /\ ~Has(b, "B_NOCACHE")
      BY <3>1 DEF AllInv, DataInv, BufData, Growing, Cut
    <3>4. BufData(b)'
      BY <2>1, <3>3, SameBufData
    <3>5. Pending(b) => Pending(b)' /\ mem'[b] = mem[b] /\ BufExt(b)' = BufExt(b)
      BY <2>1, <3>1 DEF Pending, BufExt, Has
    <3>6. ProcData(p)'
      BY <1>0, <2>1, <2>3, <3>1 DEF ProcData, InOverlap, Writer, Has
    <3>7. HandKept(p, b)
      BY <2>1, <2>3, <3>1, DistinctConstants DEF HandKept
    <3>. QED  BY <2>1, <3>2, <3>4, <3>5, <3>6, <3>7, DataOne
  <2>. QED  BY <2>2, <2>3
<1>3. ASSUME NEW g \in GrowBy, Realloc(p, g) PROVE DataInv'
  <2>1. /\ OthersKept(p) /\ UNCHANGED <<buf, io, mem, disk, bp, obp>>
        /\ pc[p] = "hold" /\ pc'[p] = "brealloc" /\ cpu \in {p, NoProc}
        /\ call[p] = "bread" /\ call'[p] = "realloc" /\ ~Has(bp[p], "B_ERROR")
        /\ req' = [req EXCEPT ![p].size = req[p].size + g]
        /\ rareq' = [rareq EXCEPT ![p].size = req[p].size]
    BY <1>0, <1>3 DEF Realloc, Writable, At, Goto, OthersKept, data
  <2>2. /\ req'[p].vp = req[p].vp /\ req'[p].blkno = req[p].blkno
        /\ req'[p].size = req[p].size + g /\ rareq'[p].size = req[p].size
    BY <1>0, <2>1 DEF Request0
  <2>3. PICK b \in Buf : bp[p] = b
    BY <2>1 DEF AllInv, IInv, PcInv
  <2>4. /\ \A q \in Proc \ {p} : bp[q] # b /\ obp[q] # b
        /\ ~Cut(b) /\ ~Has(b, "B_NOCACHE") /\ ~Growing(b) /\ Has(b, "B_DONE")
    BY <1>0, <2>1, <2>3, InHand DEF ProcData, GrowCalls
  <2>5. BufData(b) /\ BufData(b)'
    <3>1. BufData(b)
      BY DEF AllInv, DataInv
    <3>. QED  BY <2>1, <2>4, <3>1, SameBufData
  <2>6. buf[b].bcount = req[p].size /\ BufExt(b) = ReqExt(req[p]) /\ Maps(buf[b])
    BY <2>1, <2>3, Sized DEF CurReq
  <2>7. ReqExt(req[p]) \subseteq mem[b]
    BY <2>1, <2>3, <2>4, <2>5, <2>6 DEF BufData
  <2>8. Regrown(p)'
    <3>1. req[p].size \in Nat /\ g \in Nat
      BY <1>0, ConstantTypes DEF Request0
    <3>2. PICK n \in Nat : n = req[p].size /\ n <= n + g
      BY <3>1
    <3>3. b # NoBuf
      BY DistinctConstants
    <3>. QED  BY <2>1, <2>2, <2>3, <2>6, <2>7, <3>2, <3>3 DEF Regrown, ReqExt
  <2>9. ProcData(p)'
    BY <1>0, <2>1, <2>3, <2>4, <2>8 DEF ProcData, InOverlap, Writer, Has
  <2>10. Pending(b) => Pending(b)' /\ mem'[b] = mem[b] /\ BufExt(b)' = BufExt(b)
    BY <2>1, <2>3 DEF Pending, BufExt, Has
  <2>11. HandKept(p, b)
    BY <2>1, <2>3 DEF HandKept
  <2>. QED  BY <2>1, <2>4, <2>5, <2>9, <2>10, <2>11, DataOne
<1>. QED  BY <1>1, <1>2, <1>3

-----------------------------------------------------------------------------
(* Steps on a buffer that is free, or that keep what it shows              *)

(* A free buffer is in nobody's hand, and waits to be written only if it   *)
(* is dirty.                                                               *)
LEMMA FreeData ==
    ASSUME AllInv, NEW b \in Buf, ~Has(b, "B_BUSY") \/ buf[b].queue # "none"
    PROVE  /\ BufData(b) /\ b \notin io /\ ~Growing(b) /\ ~Cut(b) /\ ~Has(b, "B_NOCACHE")
           /\ ~Has(b, "B_BUSY")
           /\ \A q \in Proc : bp[q] # b /\ obp[q] # b
           /\ Pending(b) <=> Has(b, "B_DELWRI")
<1>1. b \notin io /\ ~Growing(b) /\ \A q \in Proc : bp[q] # b /\ obp[q] # b
  BY FreeFacts DEF AllInv
<1>2. ~Has(b, "B_BUSY") /\ BufData(b)
  BY DEF AllInv, DataInv, IInv, FlagInv
<1>. QED  BY <1>1, <1>2 DEF Cut, Pending, BufData

(* A dirty buffer that is free, or at brealloc, has its data.              *)
LEMMA DirtyData ==
    ASSUME AllInv, NEW b \in Buf, Has(b, "B_DELWRI"), Has(b, "B_DONE"), ~Cut(b)
    PROVE  BufExt(b) \subseteq mem[b] /\ ~Has(b, "B_INVAL") /\ Whole(buf[b])
<1>1. BufData(b) /\ Sane(buf[b]) /\ buf[b].bcount \in Nat
  BY DEF AllInv, DataInv, PanicInv, BufOK, IInv, TypeOK, BufRec
<1>2. ~Has(b, "B_INVAL") /\ ~Has(b, "B_ERROR") /\ Whole(buf[b])
  BY <1>1 DEF BufData, Sane, Has
<1>3. Maps(buf[b])
  BY <1>1, <1>2 DEF Maps, Whole, Has
<1>. QED  BY <1>1, <1>2, <1>3 DEF BufData

(* WaitBusy's and bwrite's marks.                                          *)
LEMMA MarkData ==
    ASSUME AllInv, NEW p \in Proc, NEW b \in Buf, NEW x \in {"B_WANTED", "B_AGE"},
           cpu \in {p, NoProc}, OthersKept(p),
           buf' = [buf EXCEPT ![b].flags = @ \cup {x}],
           UNCHANGED <<io, mem, disk, call, req, rareq, bp, obp>>,
           \/ /\ pc'[p] = pc[p] /\ ret'[p] = ret[p]
              /\ pc[p] \in {"getblk", "overlap", "blkflush"}
           \/ pc[p] \in Writer /\ pc'[p] = ret[p]
    PROVE  DataInv'
<1>1. /\ ProcData(p) /\ BufData(b) /\ buf \in [Buf -> BufRec]
      /\ bp[p] \in Buf \cup {NoBuf} /\ obp[p] \in Buf \cup {NoBuf}
  BY DEF AllInv, DataInv, IInv, TypeOK
<1>2. /\ \A c \in Buf \ {b} : buf'[c] = buf[c]
      /\ buf'[b].vp = buf[b].vp /\ buf'[b].blkno = buf[b].blkno
      /\ buf'[b].bcount = buf[b].bcount /\ buf'[b].flags = buf[b].flags \cup {x}
  BY <1>1 DEF BufRec
<1>3. ASSUME NEW c \in Buf
      PROVE  /\ buf'[c].bcount = buf[c].bcount
             /\ \A f \in Flag \ {"B_WANTED", "B_AGE"} : Has(c, f)' <=> Has(c, f)
  BY <1>2 DEF Has
<1>4. pc[p] # "allocbuf" /\ pc'[p] \notin {"brealloc", "allocbuf", "hold"}
  <2>1. pc[p] \in Writer => ret[p] \notin {"brealloc", "allocbuf", "hold"}
    BY DEF AllInv, IInv, PcInv
  <2>. QED  BY <2>1 DEF Writer
<1>5. InOverlap(p)' <=> InOverlap(p)
  <2>1. pc[p] \in Writer => ret[p] \notin Writer
    BY DEF AllInv, IInv, PcInv, Writer
  <2>. QED  BY <2>1 DEF InOverlap, Writer
<1>6. ProcData(p)'
  <2>1. CurReq(p)' = CurReq(p)
    BY DEF CurReq
  <2>2. bp[p] \in Buf => (NotLonger(p)' <=> NotLonger(p)) /\ (Regrown(p)' <=> Regrown(p))
    BY <1>3, <2>1 DEF NotLonger, Regrown
  <2>3. InOverlap(p) => bp[p] \in Buf
    BY DEF AllInv, IInv, PcInv, InOverlap
  <2>4. call[p] = "realloc" => bp[p] \in Buf
    BY <1>1 DEF ProcData, Regrown
  <2>5. \A c \in Buf : /\ Has(c, "B_INVAL")' <=> Has(c, "B_INVAL")
                       /\ Has(c, "B_DONE")' <=> Has(c, "B_DONE")
                       /\ Has(c, "B_DELWRI")' <=> Has(c, "B_DELWRI")
    BY <1>3 DEF Flag
  <2>6. /\ bp[p] # NoBuf /\ call[p] # "geteblk" => ~Has(bp[p], "B_INVAL")'
        /\ obp[p] # NoBuf => ~Has(obp[p], "B_INVAL")'
    BY <1>1, <2>5 DEF ProcData, Has
  <2>7. InOverlap(p) => /\ ~Has(bp[p], "B_DONE")'
                        /\ NotLonger(p)' \/ ~Has(bp[p], "B_DELWRI")'
    BY <1>1, <2>2, <2>3, <2>5 DEF ProcData, Has
  <2>. QED  BY <1>1, <1>4, <1>5, <2>2, <2>4, <2>6, <2>7 DEF ProcData, Has
<1>7. BufData(b)'
  <2>1. (Growing(b)' <=> Growing(b)) /\ (Cut(b) => Cut(b)')
    BY <1>4 DEF Growing, Cut, OthersKept
  <2>2. BufExt(b)' = BufExt(b) /\ (Maps(buf[b])' <=> Maps(buf[b]))
    BY <1>2 DEF BufExt, Maps
  <2>3. /\ Has(b, "B_INVAL")' <=> Has(b, "B_INVAL")
        /\ Has(b, "B_DONE")' <=> Has(b, "B_DONE")
        /\ Has(b, "B_DELWRI")' <=> Has(b, "B_DELWRI")
        /\ Has(b, "B_NOCACHE")' <=> Has(b, "B_NOCACHE")
        /\ Has(b, "B_BUSY")' <=> Has(b, "B_BUSY")
        /\ Has(b, "B_READ")' <=> Has(b, "B_READ")
        /\ Has(b, "B_ERROR")' <=> Has(b, "B_ERROR")
    BY <1>3 DEF Flag
  <2>. QED  BY <1>1, <2>1, <2>2, <2>3 DEF BufData
<1>8. ASSUME NEW q \in Proc \ {p} PROVE pc[q] # "allocbuf"
  BY DistinctConstants DEF AllInv, UniqueInv, Searched
<1>9. Elsewhere(b, {}) /\ OthersSee(p, b)
  BY <1>2, <1>8 DEF Elsewhere, OthersSee, SameView, SameFlag
<1>10. FragsKept(b, {})
  <2>1. Pending(b) => Pending(b)'
    BY <1>2 DEF Pending, Has
  <2>2. BufExt(b)' = BufExt(b)
    BY <1>2 DEF BufExt
  <2>. QED  BY <2>1, <2>2 DEF FragsKept
<1>11. HandKept(p, b)
  BY <1>4 DEF HandKept
<1>. QED  BY <1>6, <1>7, <1>9, <1>10, <1>11, DataFrame

(* A sleeper's B_WANTED, bwrite's late B_AGE.                              *)
LEMMA MarkActionsData ==
    ASSUME AllInv, NEW p \in Proc, SetAge(p) \/ \E b \in Buf : WaitBusy(p, b)
    PROVE  DataInv'
<1>0. pc \in [Proc -> Label] /\ ret \in [Proc -> Label]
  BY DEF AllInv, IInv, TypeOK
<1>1. CASE SetAge(p)
  <2>1. PICK b \in Buf : wbp[p] = b
    BY <1>1 DEF AllInv, IInv, PcInv, SetAge, At, Writer
  <2>2. /\ OthersKept(p) /\ UNCHANGED <<io, mem, disk, call, req, rareq, bp, obp>>
        /\ cpu \in {p, NoProc} /\ pc[p] \in Writer /\ pc'[p] = ret[p]
        /\ buf' = [buf EXCEPT ![b].flags = @ \cup {"B_AGE"}]
    BY <1>0, <1>1, <2>1 DEF SetAge, BwriteReturn, At, Goto, OthersKept, args, data, Writer
  <2>. QED  BY <2>2, MarkData
<1>2. ASSUME NEW b \in Buf, WaitBusy(p, b) PROVE DataInv'
  <2>1. /\ OthersKept(p) /\ UNCHANGED <<io, mem, disk, call, req, rareq, bp, obp>>
        /\ cpu \in {p, NoProc} /\ pc'[p] = pc[p] /\ ret'[p] = ret[p]
        /\ pc[p] \in {"getblk", "overlap", "blkflush"}
        /\ buf' = [buf EXCEPT ![b].flags = @ \cup {"B_WANTED"}]
    BY <1>2 DEF WaitBusy, Searching, Sleep, At, OthersKept, args, data
  <2>. QED  BY <2>1, MarkData
<1>. QED  BY <1>1, <1>2

-----------------------------------------------------------------------------
(* Steps that put a buffer on a free list, or find it there                *)

(* What brelse puts on a free list keeps its promises if it had them, and  *)
(* what is dirty stays so.                                                 *)
LEMMA ReleasedData ==
    ASSUME NEW b \in Buf, NEW h \in BufRec, buf'[b] = Released(h), b \notin io',
           "B_DELWRI" \in h.flags => /\ h.flags \cap {"B_INVAL", "B_NOCACHE", "B_ERROR"} = {}
                                     /\ "B_DONE" \in h.flags,
           Maps(h) /\ "B_DONE" \in h.flags /\ "B_ERROR" \notin h.flags
              => Ext(h.vp, h.blkno, h.bcount) \subseteq mem'[b]
    PROVE  /\ BufData(b)'
           /\ "B_DELWRI" \in h.flags =>
                 Has(b, "B_DELWRI")' /\ BufExt(b)' = Ext(h.vp, h.blkno, h.bcount)
<1>1. /\ "B_DELWRI" \in Released(h).flags <=> "B_DELWRI" \in h.flags
      /\ "B_DONE" \in Released(h).flags <=> "B_DONE" \in h.flags
      /\ "B_ERROR" \in Released(h).flags <=> "B_ERROR" \in h.flags
      /\ "B_INVAL" \in Released(h).flags <=> h.flags \cap {"B_INVAL", "B_NOCACHE"} # {}
      /\ "B_NOCACHE" \notin Released(h).flags
      /\ Released(h).blkno = h.blkno /\ Released(h).bcount = h.bcount
      /\ Released(h).vp = IF "B_ERROR" \in h.flags THEN NoVnode ELSE h.vp
  <2>1. \A f \in Flag \ {"B_WANTED", "B_BUSY", "B_ASYNC", "B_AGE", "B_NOCACHE", "B_INVAL"} :
           f \in Released(h).flags <=> f \in h.flags
    BY DEF Released, BufRec
  <2>2. /\ "B_INVAL" \in Released(h).flags <=> h.flags \cap {"B_INVAL", "B_NOCACHE"} # {}
        /\ "B_NOCACHE" \notin Released(h).flags
    BY DEF Released, BufRec
  <2>3. /\ Released(h).blkno = h.blkno /\ Released(h).bcount = h.bcount
        /\ Released(h).vp = IF "B_ERROR" \in h.flags THEN NoVnode ELSE h.vp
    BY DEF Released, BufRec
  <2>. QED  BY <2>1, <2>2, <2>3 DEF Flag
<1>2. Maps(Released(h)) => Maps(h)
  BY <1>1 DEF Maps
<1>3. "B_ERROR" \notin h.flags => BufExt(b)' = Ext(h.vp, h.blkno, h.bcount)
  BY <1>1 DEF BufExt
<1>. QED  BY <1>1, <1>2, <1>3 DEF BufData, Has

(* A process that has another buffer than b in hand, or none, and goes on  *)
(* in its call.                                                            *)
LEMMA AsideData ==
    ASSUME AllInv, NEW p \in Proc, NEW b \in Buf, bp[p] # b, obp[p] # b,
           UNCHANGED <<call, req, rareq, bp, obp>>,
           \A c \in Buf \ {b} : buf'[c] = buf[c] /\ mem'[c] = mem[c],
           pc[p] # "allocbuf",
           InOverlap(p)' => InOverlap(p),
           pc'[p] \notin {"brealloc", "allocbuf", "hold"}
    PROVE  ProcData(p)' /\ HandKept(p, b)
<1>1. /\ ProcData(p) /\ bp[p] \in Buf \cup {NoBuf} /\ obp[p] \in Buf \cup {NoBuf}
  BY DEF AllInv, DataInv, IInv, TypeOK
<1>2. /\ bp[p] # NoBuf => buf'[bp[p]] = buf[bp[p]] /\ mem'[bp[p]] = mem[bp[p]]
      /\ obp[p] # NoBuf => buf'[obp[p]] = buf[obp[p]]
  BY <1>1
<1>3. InOverlap(p) => bp[p] \in Buf
  BY DEF AllInv, IInv, PcInv, InOverlap
<1>4. CurReq(p)' = CurReq(p)
  BY DEF CurReq
<1>5. InOverlap(p) => ~Has(bp[p], "B_DONE")' /\ (NotLonger(p)' \/ ~Has(bp[p], "B_DELWRI")')
  BY <1>1, <1>2, <1>3, <1>4, DistinctConstants DEF ProcData, NotLonger, Has
<1>6. call[p] = "realloc" => Regrown(p)'
  BY <1>1, <1>2 DEF ProcData, Regrown
<1>7. ProcData(p)'
  BY <1>1, <1>2, <1>5, <1>6 DEF ProcData, Has
<1>. QED  BY <1>7 DEF HandKept

(* The end of a synchronous write.                                         *)
LEMMA BwriteDoneData ==
    ASSUME AllInv, NEW p \in Proc, BwriteDone(p)
    PROVE  DataInv'
<1>0. /\ pc \in [Proc -> Label] /\ ret \in [Proc -> Label] /\ buf \in [Buf -> BufRec]
  BY DEF AllInv, IInv, TypeOK
<1>1. PICK b \in Buf : wbp[p] = b
  BY DEF AllInv, IInv, PcInv, BwriteDone, At, Writer
<1>2. /\ OthersKept(p) /\ UNCHANGED <<io, mem, disk, call, req, rareq, bp, obp>>
      /\ cpu \in {p, NoProc} /\ pc[p] = "bwait" /\ pc'[p] = ret[p]
      /\ Has(b, "B_DONE") /\ buf' = [buf EXCEPT ![b] = Released(buf[b])]
  BY <1>0, <1>1 DEF BwriteDone, BwriteReturn, brelse, At, Goto, OthersKept, args, data
<1>3. b \notin io /\ \A q \in Proc : bp[q] # b /\ obp[q] # b
  BY <1>1, <1>2 DEF AllInv, IInv, FlagInv, OwnInv, Owns
<1>4. BufData(b) /\ Sane(buf[b]) /\ ~Cut(b) /\ (Pending(b) <=> Has(b, "B_DELWRI"))
  BY <1>3 DEF AllInv, DataInv, PanicInv, BufOK, Cut, Pending
<1>5. /\ BufData(b)'
      /\ Has(b, "B_DELWRI") => Has(b, "B_DELWRI")' /\ BufExt(b)' = BufExt(b)
  <2>1. Has(b, "B_DELWRI") =>
           buf[b].flags \cap {"B_INVAL", "B_NOCACHE", "B_ERROR"} = {}
    BY <1>4 DEF BufData, Sane, Has
  <2>2. Maps(buf[b]) /\ ~Has(b, "B_ERROR") => BufExt(b) \subseteq mem'[b]
    BY <1>2, <1>4 DEF BufData
  <2>. QED  BY <1>0, <1>2, <1>3, <2>1, <2>2, ReleasedData DEF Has, BufExt
<1>6. ret[p] \notin {"brealloc", "allocbuf", "hold"} /\ (InOverlap(p)' => InOverlap(p))
  <2>1. ret[p] \in {"idle", "getblk", "getnewbuf", "overlap", "blkflush", "bflush", "binvalfree"}
    BY <1>2 DEF AllInv, IInv, PcInv, Writer
  <2>. QED  BY <1>2, <2>1 DEF InOverlap, Writer
<1>7. ProcData(p)' /\ HandKept(p, b)
  BY <1>0, <1>2, <1>3, <1>6, AsideData
<1>8. Pending(b) => Pending(b)' /\ mem'[b] = mem[b] /\ BufExt(b)' = BufExt(b)
  BY <1>2, <1>4, <1>5 DEF Pending
<1>. QED  BY <1>0, <1>2, <1>3, <1>5, <1>7, <1>8, DataOne

(* A clean buffer on a free list is invalidated.                           *)
LEMMA InvalData ==
    ASSUME AllInv, NEW p \in Proc, NEW b \in Buf, OverlapInval(p, b) \/ BinvalfreeInval(p, b)
    PROVE  DataInv'
<1>0. /\ pc \in [Proc -> Label] /\ buf \in [Buf -> BufRec] /\ mem \in [Buf -> SUBSET Frag]
  BY DEF AllInv, IInv, TypeOK
<1>1. /\ OthersKept(p) /\ UNCHANGED <<io, disk, call, req, rareq, bp, obp, ret>>
      /\ cpu \in {p, NoProc} /\ pc'[p] = pc[p] /\ pc[p] \in {"overlap", "binvalfree"}
      /\ mem' = [mem EXCEPT ![b] = {}]
      /\ ~Has(b, "B_DELWRI") /\ (~Has(b, "B_BUSY") \/ buf[b].queue # "none")
  BY <1>0
  DEF OverlapInval, BinvalfreeInval, At, Goto, OthersKept, args, data, FreeOf, OnQueue
<1>2. /\ BufData(b) /\ b \notin io /\ ~Has(b, "B_NOCACHE") /\ ~Pending(b)
      /\ \A q \in Proc : bp[q] # b /\ obp[q] # b
  BY <1>1, FreeData
<1>3. BufData(b)' /\ \A c \in Buf \ {b} : buf'[c] = buf[c]
  <2>1. CASE OverlapInval(p, b)
    <3>. DEFINE h == [notavail(buf[b]) EXCEPT !.flags = @ \cup {"B_INVAL"}]
    <3>1. buf' = [buf EXCEPT ![b] = Released(h)]
      BY <2>1 DEF OverlapInval, brelse
    <3>2. h \in BufRec /\ h.flags = buf[b].flags \cup {"B_BUSY", "B_INVAL"}
      BY <1>0 DEF notavail, BufRec, Flag, Queue
    <3>. HIDE DEF h
    <3>. QED  BY <1>0, <1>1, <1>2, <3>1, <3>2, ReleasedData DEF Maps, Has
  <2>2. CASE BinvalfreeInval(p, b)
    <3>. DEFINE h == brelvp([buf[b] EXCEPT !.flags = @ \cup {"B_INVAL"}])
    <3>1. buf' = [buf EXCEPT ![b] = h]
      BY <2>2 DEF BinvalfreeInval
    <3>2. h.flags = buf[b].flags \cup {"B_INVAL"}
      BY <1>0 DEF brelvp, BufRec
    <3>. HIDE DEF h
    <3>3. buf'[b].flags = buf[b].flags \cup {"B_INVAL"}
      BY <1>0, <3>1, <3>2
    <3>. QED  BY <1>0, <1>1, <1>2, <3>1, <3>3 DEF BufData, Has, Maps
  <2>. QED  BY <2>1, <2>2
<1>4. InOverlap(p)' <=> InOverlap(p)
  BY <1>1 DEF InOverlap
<1>5. ProcData(p)' /\ HandKept(p, b)
  BY <1>0, <1>1, <1>2, <1>3, <1>4, AsideData
<1>. QED  BY <1>0, <1>1, <1>2, <1>3, <1>5, DataOne

-----------------------------------------------------------------------------
(* Steps that write a dirty buffer                                         *)

(* The driver is given a buffer to write that has its data.                *)
LEMMA WrittenData ==
    ASSUME NEW b \in Buf, NEW h \in BufRec, buf'[b] = Writing(h), b \in io',
           "B_INVAL" \notin h.flags,
           "B_NOCACHE" \in h.flags => /\ "B_BUSY" \in h.flags
                                      /\ \A q \in Proc : bp'[q] # b /\ obp'[q] # b,
           Ext(h.vp, h.blkno, h.bcount) \subseteq mem'[b]
    PROVE  BufData(b)' /\ Pending(b)' /\ BufExt(b)' = Ext(h.vp, h.blkno, h.bcount)
<1>1. /\ Writing(h).flags = h.flags \ {"B_READ", "B_DONE", "B_ERROR", "B_DELWRI"}
      /\ Writing(h).vp = h.vp /\ Writing(h).blkno = h.blkno /\ Writing(h).bcount = h.bcount
  BY WritingFacts DEF Writing, BufRec
<1>2. BufExt(b)' = Ext(h.vp, h.blkno, h.bcount)
  BY <1>1 DEF BufExt
<1>. QED  BY <1>1, <1>2 DEF BufData, Pending, Has

(* The pushes of brealloc, blkflush, getnewbuf, bflush and binvalfree.     *)
LEMMA PushData ==
    ASSUME AllInv, NEW p \in Proc, NEW b \in Buf, NEW x \in SUBSET {"B_ASYNC"}, NEW l,
           l = pc[p], pc[p] \in {"overlap", "blkflush", "getnewbuf", "bflush", "binvalfree"},
           cpu \in {p, NoProc},
           ~Has(b, "B_BUSY") \/ buf[b].queue # "none", Has(b, "B_DELWRI"),
           bwrite(p, b, [notavail(buf[b]) EXCEPT !.flags = @ \cup x], l),
           UNCHANGED <<args, bp, obp, data>>
    PROVE  DataInv'
<1>. DEFINE h == [notavail(buf[b]) EXCEPT !.flags = @ \cup x]
<1>0. /\ pc \in [Proc -> Label] /\ ret \in [Proc -> Label] /\ buf \in [Buf -> BufRec]
  BY DEF AllInv, IInv, TypeOK
<1>1. /\ h \in BufRec /\ h.flags = buf[b].flags \cup {"B_BUSY"} \cup x
      /\ h.vp = buf[b].vp /\ h.blkno = buf[b].blkno /\ h.bcount = buf[b].bcount
  BY <1>0 DEF notavail, BufRec, Flag, Queue
<1>2. bwrite(p, b, h, l)
  OBVIOUS
<1>. HIDE DEF h
<1>3. "B_DELWRI" \in h.flags
  BY <1>1 DEF Has
<1>4. /\ buf' = [buf EXCEPT ![b] = Writing(h)] /\ io' = io \cup {b}
      /\ ret' = [ret EXCEPT ![p] = l]
      /\ \E m \in Writer : pc' = [pc EXCEPT ![p] = m]
  BY <1>2, <1>3 DEF bwrite, Strategy, Goto, Writer
<1>5. /\ OthersKept(p) /\ UNCHANGED <<call, req, rareq, bp, obp, mem, disk>>
      /\ pc'[p] \in Writer /\ ret'[p] = pc[p]
      /\ buf'[b] = Writing(h) /\ \A c \in Buf \ {b} : buf'[c] = buf[c]
  BY <1>0, <1>4 DEF OthersKept, args, data
<1>6. /\ BufData(b) /\ b \notin io /\ ~Growing(b) /\ ~Cut(b) /\ ~Has(b, "B_NOCACHE")
      /\ \A q \in Proc : bp[q] # b /\ obp[q] # b
  BY FreeData
<1>7. BufExt(b) \subseteq mem[b] /\ ~Has(b, "B_INVAL")
  <2>1. Has(b, "B_DONE")
    BY <1>6 DEF BufData
  <2>. QED  BY <1>6, <2>1, DirtyData
<1>8. BufData(b)' /\ Pending(b)' /\ BufExt(b)' = BufExt(b)
  BY <1>1, <1>4, <1>5, <1>6, <1>7, WrittenData DEF Has, BufExt
<1>9. (InOverlap(p)' => InOverlap(p)) /\ pc'[p] \notin {"brealloc", "allocbuf", "hold"}
  BY <1>5 DEF InOverlap, Writer
<1>10. ProcData(p)' /\ HandKept(p, b)
  BY <1>5, <1>6, <1>9, AsideData
<1>. QED  BY <1>4, <1>5, <1>6, <1>8, <1>10, DataOne

(* ... as actions.                                                         *)
LEMMA PushActionsData ==
    ASSUME AllInv, NEW p \in Proc, NEW b \in Buf,
           WriteDirty(p, b) \/ GetnewbufPush(p, b) \/ FlushPush(p, b)
    PROVE  DataInv'
<1>1. CASE WriteDirty(p, b)
  <2>1. notavail(buf[b]) = [notavail(buf[b]) EXCEPT !.flags = @ \cup {}]
    BY notavailFacts DEF AllInv, IInv, TypeOK, BufRec
  <2>2. bwrite(p, b, [notavail(buf[b]) EXCEPT !.flags = @ \cup {}], pc[p])
    BY <1>1, <2>1 DEF WriteDirty
  <2>. QED  BY <1>1, <2>2, PushData DEF WriteDirty, At
<1>2. CASE GetnewbufPush(p, b)
  BY <1>2, PushData DEF GetnewbufPush, At, NewBufChoices, OnQueue
<1>3. CASE FlushPush(p, b)
  BY <1>3, PushData DEF FlushPush, At, FreeOf, OnQueue
<1>. QED  BY <1>1, <1>2, <1>3

(* brealloc writes a dirty buffer that is to shrink and gives it up.       *)
LEMMA BreallocWriteData ==
    ASSUME AllInv, Roomy, NEW p \in Proc, BreallocWrite(p)
    PROVE  DataInv'
<1>0. /\ pc \in [Proc -> Label] /\ ret \in [Proc -> Label] /\ buf \in [Buf -> BufRec]
      /\ bp \in [Proc -> Buf \cup {NoBuf}] /\ obp[p] \in Buf \cup {NoBuf} /\ ProcData(p)
  BY DEF AllInv, IInv, TypeOK, DataInv
<1>1. PICK b \in Buf : bp[p] = b
  BY DEF AllInv, IInv, PcInv, BreallocWrite, At
<1>2. /\ pc[p] = "brealloc" /\ cpu \in {p, NoProc} /\ Has(b, "B_DELWRI")
      /\ CurReq(p).size < buf[b].bcount
      /\ bp' = [bp EXCEPT ![p] = NoBuf] /\ UNCHANGED <<call, req, rareq, obp, mem, disk>>
      /\ bwrite(p, b, buf[b], "getblk")
  BY <1>1 DEF BreallocWrite, At, args, data
<1>3. /\ buf' = [buf EXCEPT ![b] = Writing(buf[b])] /\ io' = io \cup {b}
      /\ ret' = [ret EXCEPT ![p] = "getblk"]
      /\ \E m \in Writer : pc' = [pc EXCEPT ![p] = m]
  BY <1>2 DEF bwrite, Strategy, Goto, Writer, Has
<1>4. /\ OthersKept(p) /\ bp'[p] = NoBuf /\ pc'[p] \in Writer /\ ret'[p] = "getblk"
      /\ buf'[b] = Writing(buf[b]) /\ \A c \in Buf \ {b} : buf'[c] = buf[c]
  BY <1>0, <1>2, <1>3 DEF OthersKept
<1>5. /\ \A q \in Proc \ {p} : bp[q] # b /\ obp[q] # b
      /\ obp[p] # b /\ ~Cut(b) /\ ~Has(b, "B_NOCACHE")
  BY <1>1, <1>2, InHand
<1>6. BufExt(b) \subseteq mem[b] /\ ~Has(b, "B_INVAL")
  BY <1>0, <1>1, <1>2, <1>5, DirtyData DEF ProcData
<1>7. BufData(b)' /\ Pending(b)' /\ BufExt(b)' = BufExt(b)
  BY <1>0, <1>2, <1>3, <1>4, <1>5, <1>6, WrittenData DEF Has, BufExt
<1>8. call[p] # "realloc"
  <2>. SUFFICES ASSUME call[p] = "realloc" PROVE FALSE
    OBVIOUS
  <2>1. buf[b].bcount <= CurReq(p).size
    BY <1>0, <1>1 DEF ProcData, Regrown, CurReq
  <2>2. buf[b].bcount \in Nat /\ CurReq(p).size \in Nat
    BY <1>0 DEF BufRec, CurReq, AllInv, IInv, TypeOK, Request0
  <2>. QED  BY <1>2, <2>1, <2>2
<1>9. ProcData(p)'
  <2>1. obp[p] # NoBuf => buf'[obp[p]] = buf[obp[p]]
    BY <1>0, <1>4, <1>5
  <2>. QED  BY <1>0, <1>2, <1>4, <1>8, <2>1 DEF ProcData, InOverlap, Writer, Has
<1>10. HandKept(p, b)
  BY <1>1, <1>2, <1>4, DistinctConstants DEF HandKept
<1>. QED  BY <1>2, <1>3, <1>4, <1>5, <1>7, <1>9, <1>10, DataOne

-----------------------------------------------------------------------------
(* Steps that take a buffer from a free list                               *)

(* getblk finds the block, or gets a new buffer for it.                    *)
LEMMA TakeData ==
    ASSUME AllInv, NEW p \in Proc, NEW b \in Buf,
           GetblkHit(p, b) \/ GetblkNew(p, b) \/ GeteblkNew(p, b)
    PROVE  DataInv'
<1>0. /\ pc \in [Proc -> Label] /\ buf \in [Buf -> BufRec] /\ mem \in [Buf -> SUBSET Frag]
      /\ bp \in [Proc -> Buf \cup {NoBuf}] /\ obp[p] \in Buf \cup {NoBuf} /\ ProcData(p)
  BY DEF AllInv, IInv, TypeOK, DataInv
<1>1. /\ OthersKept(p) /\ UNCHANGED <<io, disk, call, req, rareq, obp>>
      /\ cpu \in {p, NoProc} /\ pc'[p] = "brealloc" /\ bp'[p] = b /\ bp[p] = NoBuf
      /\ ~Has(b, "B_BUSY") \/ buf[b].queue # "none"
      /\ \E h : buf' = [buf EXCEPT ![b] = h]
  BY <1>0
  DEF GetblkHit, GetblkNew, GeteblkNew, GetnewbufTake, NewBufChoices, OnQueue, At, Goto,
      OthersKept, args, data, AllInv, IInv, PcInv
<1>2. /\ BufData(b) /\ b \notin io /\ ~Growing(b) /\ ~Cut(b) /\ ~Has(b, "B_NOCACHE")
      /\ (\A q \in Proc : bp[q] # b /\ obp[q] # b) /\ (Pending(b) <=> Has(b, "B_DELWRI"))
  BY <1>1, FreeData
<1>3. call[p] # "realloc"
  BY <1>0, <1>1 DEF ProcData, Regrown
<1>4. /\ BufData(b)' /\ \A c \in Buf \ {b} : mem'[c] = mem[c]
      /\ Has(b, "B_DONE")' \/ ~Has(b, "B_DELWRI")'
      /\ call[p] # "geteblk" => ~Has(b, "B_INVAL")'
      /\ Pending(b) => /\ Has(b, "B_DELWRI")' /\ mem'[b] = mem[b] /\ BufExt(b)' = BufExt(b)
  <2>1. CASE GetblkHit(p, b)
    <3>1. buf'[b] = notavail(buf[b]) /\ mem' = mem /\ ~Has(b, "B_INVAL")
      BY <1>0, <2>1 DEF GetblkHit, Found, At, Matches, data
    <3>2. /\ buf'[b].flags = buf[b].flags \cup {"B_BUSY"}
          /\ buf'[b].vp = buf[b].vp /\ buf'[b].blkno = buf[b].blkno
          /\ buf'[b].bcount = buf[b].bcount
      BY <1>0, <3>1 DEF notavail, BufRec
    <3>3. BufExt(b)' = BufExt(b) /\ (Maps(buf[b])' => Maps(buf[b]))
      BY <3>2 DEF BufExt, Maps
    <3>4. Has(b, "B_DELWRI") => Has(b, "B_DONE")
      BY <1>2 DEF BufData
    <3>. QED  BY <1>1, <1>2, <3>1, <3>2, <3>3, <3>4 DEF BufData, Has
  <2>2. CASE GetblkNew(p, b) \/ GeteblkNew(p, b)
    <3>1. PICK m \in BufRec : m = NewBuf(b) /\ m.flags = {"B_BUSY"}
      BY <1>0, NewBufFacts
    <3>2. /\ buf'[b].flags \in {{"B_BUSY"}, {"B_BUSY", "B_INVAL"}}
          /\ call[p] # "geteblk" => buf'[b].flags = {"B_BUSY"}
      <4>1. CASE GetblkNew(p, b)
        <5>1. buf'[b] = [m EXCEPT !.bcount = 0, !.vp = CurReq(p).vp, !.blkno = CurReq(p).blkno]
          BY <1>0, <3>1, <4>1 DEF GetblkNew
        <5>. QED  BY <3>1, <5>1 DEF BufRec
      <4>2. CASE GeteblkNew(p, b)
        <5>1. buf'[b] = [m EXCEPT !.bcount = 0, !.flags = @ \cup {"B_INVAL"}]
          BY <1>0, <3>1, <4>2 DEF GeteblkNew
        <5>2. buf'[b].flags = {"B_BUSY", "B_INVAL"}
          BY <3>1, <5>1 DEF BufRec
        <5>. QED  BY <4>2, <5>2 DEF GeteblkNew
      <4>. QED  BY <2>2, <4>1, <4>2
    <3>3. \A c \in Buf \ {b} : mem'[c] = mem[c]
      BY <1>0, <2>2 DEF GetblkNew, GeteblkNew
    <3>4. ~Pending(b)
      BY <1>2, <2>2 DEF GetblkNew, GeteblkNew, GetnewbufTake
    <3>. QED  BY <1>1, <1>2, <3>2, <3>3, <3>4 DEF BufData, Has
  <2>. QED  BY <2>1, <2>2
<1>5. \A c \in Buf \ {b} : buf'[c] = buf[c]
  BY <1>0, <1>1
<1>6. ProcData(p)'
  <2>1. obp[p] # NoBuf => buf'[obp[p]] = buf[obp[p]]
    BY <1>0, <1>2, <1>5
  <2>. QED  BY <1>0, <1>1, <1>3, <1>4, <2>1 DEF ProcData, InOverlap, Writer, Has
<1>7. HandKept(p, b)
  BY <1>1, DistinctConstants DEF HandKept
<1>8. Pending(b) => Pending(b)' /\ mem[b] \cap BufExt(b) \subseteq mem'[b] \cap BufExt(b)'
  BY <1>4 DEF Pending
<1>. QED  BY <1>1, <1>2, <1>4, <1>5, <1>6, <1>7, <1>8, DataOne

-----------------------------------------------------------------------------
(* brealloc and allocbuf                                                   *)

(* A clean buffer is cut to what the call asks for.                        *)
LEMMA BreallocShrinkData ==
    ASSUME AllInv, Roomy, NEW p \in Proc, BreallocShrink(p)
    PROVE  DataInv'
<1>0. /\ pc \in [Proc -> Label] /\ buf \in [Buf -> BufRec] /\ mem \in [Buf -> SUBSET Frag]
      /\ ProcData(p) /\ HandOf(p)
  BY DEF AllInv, IInv, TypeOK, DataInv, UniqueInv
<1>1. PICK b \in Buf : bp[p] = b
  BY DEF AllInv, IInv, PcInv, BreallocShrink, At
<1>2. /\ OthersKept(p) /\ UNCHANGED <<buf, io, disk, call, req, rareq, bp, obp, ret>>
      /\ pc[p] = "brealloc" /\ cpu \in {p, NoProc} /\ ~Has(b, "B_DELWRI")
      /\ pc'[p] = "allocbuf"
      /\ CurReq(p).size < buf[b].bcount
      /\ mem' = [mem EXCEPT ![b] = @ \cap ReqExt(CurReq(p))]
  BY <1>0, <1>1 DEF BreallocShrink, At, Goto, OthersKept, args
<1>3. PICK n \in Nat \ {0}, m \in Nat : n = CurReq(p).size /\ m = buf[b].bcount
  BY <1>0 DEF BufRec, CurReq, AllInv, IInv, TypeOK, Request0
<1>4. n < m
  BY <1>2, <1>3
<1>5. call[p] # "realloc"
  <2>. SUFFICES ASSUME call[p] = "realloc" PROVE FALSE
    OBVIOUS
  <2>1. m <= n
    BY <1>0, <1>1, <1>3 DEF ProcData, Regrown, CurReq
  <2>. QED  BY <1>4, <2>1
<1>6. /\ \A q \in Proc \ {p} : bp[q] # b /\ obp[q] # b
      /\ obp[p] # b /\ ~Cut(b) /\ ~Has(b, "B_NOCACHE") /\ b \notin io /\ ~Pending(b)
  BY <1>1, <1>2, <1>5, InHand
<1>7. Cut(b)'
  BY <1>1, <1>2 DEF Cut
<1>8. BufData(b) /\ BufData(b)'
  BY <1>2, <1>6, <1>7 DEF AllInv, DataInv, BufData, Has
<1>9. Read(b) => ReqExt(CurReq(p)) \subseteq mem'[b]
  <2>. SUFFICES ASSUME Read(b) PROVE ReqExt(CurReq(p)) \subseteq mem'[b]
    OBVIOUS
  <2>1. call[p] # "geteblk"
    BY <1>0, <1>1, DistinctConstants DEF HandOf, Read
  <2>2. Names(b, CurReq(p)) /\ buf[b].vp # NoVnode
    BY <1>1, <2>1, InHand
  <2>3. Maps(buf[b])
    BY <1>3, <1>4, <2>2 DEF Maps, Read, Has
  <2>4. BufExt(b) \subseteq mem[b]
    BY <1>6, <1>8, <2>3 DEF BufData, Read
  <2>5. ReqExt(CurReq(p)) \subseteq BufExt(b)
    <3>1. buf[b].blkno \in Nat /\ n <= m
      BY <1>0, <1>4 DEF BufRec
    <3>2. Ext(buf[b].vp, buf[b].blkno, n) \subseteq Ext(buf[b].vp, buf[b].blkno, m)
      BY <3>1, ExtPart
    <3>. QED  BY <1>3, <2>2, <3>2 DEF ReqExt, BufExt, Names
  <2>. QED  BY <1>0, <1>2, <2>4, <2>5
<1>10. ProcData(p)'
  <2>1. CurReq(p)' = CurReq(p) /\ ReqExt(CurReq(p))' = ReqExt(CurReq(p))
    BY <1>2 DEF CurReq, ReqExt
  <2>2. ~InOverlap(p)'
    BY <1>2 DEF InOverlap, Writer
  <2>. QED  BY <1>0, <1>1, <1>2, <1>5, <1>9, <2>1, <2>2 DEF ProcData, Read, Has
<1>11. HandKept(p, b)
  BY <1>1, <1>2 DEF HandKept
<1>. QED  BY <1>0, <1>2, <1>6, <1>8, <1>10, <1>11, DataOne

(* A buffer that grows is no longer done; a dirty one grows only under     *)
(* getblk or realloccg.                                                    *)
LEMMA BreallocGrowData ==
    ASSUME AllInv, Roomy, WholeReads, NEW p \in Proc, BreallocGrow(p)
    PROVE  DataInv'
<1>0. /\ pc \in [Proc -> Label] /\ buf \in [Buf -> BufRec]
      /\ obp[p] \in Buf \cup {NoBuf} /\ ProcData(p) /\ HandOf(p) /\ ArgsOf(p)
  BY DEF AllInv, IInv, TypeOK, DataInv, UniqueInv
<1>1. PICK b \in Buf : bp[p] = b
  BY DEF AllInv, IInv, PcInv, BreallocGrow, At
<1>2. /\ OthersKept(p) /\ UNCHANGED <<mem, io, disk, call, req, rareq, bp, obp, ret>>
      /\ pc[p] = "brealloc" /\ cpu \in {p, NoProc}
      /\ pc'[p] \in {"allocbuf", "overlap"}
      /\ CurReq(p).size > buf[b].bcount
      /\ buf' = [buf EXCEPT ![b].flags = @ \ {"B_DONE"}]
  BY <1>0, <1>1 DEF BreallocGrow, At, Goto, OthersKept, args, data
<1>3. PICK n \in Nat \ {0}, m \in Nat : n = CurReq(p).size /\ m = buf[b].bcount
  BY <1>0 DEF BufRec, CurReq, AllInv, IInv, TypeOK, Request0
<1>4. m < n
  BY <1>2, <1>3
<1>5. /\ buf'[b].flags = buf[b].flags \ {"B_DONE"}
      /\ buf'[b].vp = buf[b].vp /\ buf'[b].blkno = buf[b].blkno
      /\ buf'[b].bcount = buf[b].bcount /\ \A c \in Buf \ {b} : buf'[c] = buf[c]
  BY <1>0, <1>2 DEF BufRec
<1>6. /\ \A q \in Proc \ {p} : bp[q] # b /\ obp[q] # b
      /\ obp[p] # b /\ ~Cut(b) /\ ~Has(b, "B_NOCACHE") /\ b \notin io
      /\ Growing(b) <=> call[p] \in GrowCalls
      /\ Pending(b) <=> Has(b, "B_DELWRI") \/ call[p] = "realloc"
  BY <1>1, <1>2, InHand
<1>7. Has(b, "B_DELWRI") => call[p] \in GrowCalls
  <2>. SUFFICES ASSUME Has(b, "B_DELWRI") PROVE call[p] \in GrowCalls
    OBVIOUS
  <2>1. call[p] \in ReadCalls => n <= m
    BY <1>1, <1>2, <1>3 DEF WholeReads
  <2>2. call[p] \notin ReadCalls
    BY <1>4, <2>1
  <2>3. call[p] \in BlockCalls
    BY <1>0, <1>1, DistinctConstants DEF ArgsOf, HandOf
  <2>. QED  BY <2>2, <2>3 DEF BlockCalls, ReadCalls, GrowCalls
<1>8. BufData(b) /\ BufData(b)'
  <2>1. BufData(b)
    BY DEF AllInv, DataInv
  <2>2. Growing(b)' <=> Growing(b)
    BY <1>2 DEF Growing
  <2>. QED  BY <1>2, <1>5, <1>6, <1>7, <2>1, <2>2 DEF BufData, Has
<1>9. Pending(b) => Pending(b)' /\ mem'[b] = mem[b] /\ BufExt(b)' = BufExt(b)
  BY <1>1, <1>2, <1>5, <1>6 DEF Pending, BufExt, Has
<1>10. ProcData(p)'
  <2>1. CurReq(p)' = CurReq(p)
    BY <1>2 DEF CurReq
  <2>2. NotLonger(p)'
    <3>1. m <= n
      BY <1>4
    <3>. QED  BY <1>1, <1>2, <1>3, <1>5, <2>1, <3>1 DEF NotLonger
  <2>3. ~Has(b, "B_DONE")' /\ (Has(b, "B_INVAL")' <=> Has(b, "B_INVAL"))
    BY <1>5 DEF Has
  <2>4. obp[p] # NoBuf => buf'[obp[p]] = buf[obp[p]]
    BY <1>0, <1>5, <1>6
  <2>5. call[p] = "realloc" => Regrown(p)'
    BY <1>0, <1>1, <1>2, <1>5 DEF ProcData, Regrown
  <2>. QED  BY <1>0, <1>1, <1>2, <2>2, <2>3, <2>4, <2>5 DEF ProcData, Read, Has
<1>11. HandKept(p, b)
  BY <1>1, <1>2 DEF HandKept
<1>. QED  BY <1>2, <1>5, <1>6, <1>8, <1>9, <1>10, <1>11, DataOne

(* allocbuf gives the buffer its size; what is to be written loses nothing *)
(* by it.                                                                  *)
LEMMA AllocbufFitsData ==
    ASSUME AllInv, Roomy, NEW p \in Proc, AllocbufFits(p)
    PROVE  DataInv'
<1>0. /\ pc \in [Proc -> Label] /\ buf \in [Buf -> BufRec]
      /\ obp[p] \in Buf \cup {NoBuf} /\ ProcData(p) /\ HandOf(p)
  BY DEF AllInv, IInv, TypeOK, DataInv, UniqueInv
<1>1. PICK b \in Buf : bp[p] = b
  BY DEF AllInv, IInv, PcInv, AllocbufFits, At
<1>2. PICK n \in Nat \ {0}, m \in Nat : n = CurReq(p).size /\ m = buf[b].bcount
  BY <1>0 DEF BufRec, CurReq, AllInv, IInv, TypeOK, Request0
<1>3. /\ OthersKept(p) /\ UNCHANGED <<mem, io, disk, call, req, rareq, bp, obp, ret>>
      /\ pc[p] = "allocbuf" /\ cpu \in {p, NoProc} /\ pc'[p] = "got"
      /\ buf' = [buf EXCEPT ![b].bcount = n]
  BY <1>0, <1>1, <1>2 DEF AllocbufFits, At, Goto, OthersKept, args, data
<1>4. /\ buf'[b].flags = buf[b].flags
      /\ buf'[b].vp = buf[b].vp /\ buf'[b].blkno = buf[b].blkno
      /\ buf'[b].bcount = n /\ \A c \in Buf \ {b} : buf'[c] = buf[c]
  BY <1>0, <1>3 DEF BufRec
<1>5. /\ \A q \in Proc \ {p} : bp[q] # b /\ obp[q] # b
      /\ obp[p] # b /\ ~Has(b, "B_NOCACHE") /\ b \notin io
      /\ Pending(b) <=> Has(b, "B_DELWRI") \/ call[p] = "realloc"
      /\ call[p] # "geteblk" =>
            ~Has(b, "B_INVAL") /\ Names(b, CurReq(p)) /\ buf[b].vp # NoVnode
  BY <1>1, <1>3, InHand
<1>6. ASSUME Pending(b) PROVE Pending(b)' /\ BufExt(b) \subseteq BufExt(b)'
  <2>1. m <= n
    <3>1. CASE Has(b, "B_DELWRI")
      BY <1>0, <1>1, <1>2, <1>3, <3>1 DEF ProcData, NotLonger
    <3>2. CASE call[p] = "realloc"
      BY <1>0, <1>1, <1>2, <3>2 DEF ProcData, Regrown, CurReq
    <3>. QED  BY <1>5, <1>6, <3>1, <3>2
  <2>2. Ext(buf[b].vp, buf[b].blkno, m) \subseteq Ext(buf[b].vp, buf[b].blkno, n)
    BY <1>0, <2>1, ExtPart DEF BufRec
  <2>. QED  BY <1>2, <1>3, <1>4, <1>6, <2>2 DEF Pending, BufExt, Has
<1>7. BufData(b)'
  <2>1. BufData(b) /\ (Growing(b)' <=> Growing(b))
    BY <1>3 DEF AllInv, DataInv, Growing
  <2>2. ASSUME Maps(buf[b])', Has(b, "B_DONE"), ~Has(b, "B_ERROR")
        PROVE  BufExt(b)' \subseteq mem[b]
    <3>1. Read(b)
      BY <1>4, <2>2 DEF Maps, Read, Has
    <3>2. call[p] # "geteblk"
      BY <1>0, <1>1, <3>1, DistinctConstants DEF HandOf, Read
    <3>3. ReqExt(CurReq(p)) \subseteq mem[b]
      BY <1>0, <1>1, <1>3, <3>1 DEF ProcData
    <3>. QED  BY <1>2, <1>4, <1>5, <3>2, <3>3 DEF ReqExt, BufExt, Names
  <2>. QED  BY <1>3, <1>4, <1>5, <2>1, <2>2 DEF BufData, Has
<1>8. ProcData(p)'
  <2>1. obp[p] # NoBuf => buf'[obp[p]] = buf[obp[p]]
    BY <1>0, <1>4, <1>5
  <2>2. call[p] = "realloc" => Regrown(p)'
    <3>. SUFFICES ASSUME call[p] = "realloc" PROVE Regrown(p)'
      OBVIOUS
    <3>1. Regrown(p) /\ n = req[p].size
      BY <1>0, <1>2 DEF ProcData, CurReq
    <3>2. PICK k \in Nat : k = rareq[p].size
      BY DEF AllInv, IInv, TypeOK, Request0
    <3>3. k <= m /\ m <= n
      BY <1>1, <1>2, <3>1, <3>2 DEF Regrown
    <3>4. k <= n /\ n <= n
      BY <3>3
    <3>. QED  BY <1>1, <1>3, <1>4, <3>1, <3>2, <3>4 DEF Regrown
  <2>. QED  BY <1>0, <1>1, <1>3, <1>4, <2>1, <2>2 DEF ProcData, InOverlap, Writer, Has
<1>9. HandKept(p, b)
  BY <1>1, <1>3 DEF HandKept
<1>10. Pending(b) => Pending(b)' /\ mem[b] \cap BufExt(b) \subseteq mem'[b] \cap BufExt(b)'
  BY <1>3, <1>6
<1>. QED  BY <1>3, <1>4, <1>5, <1>7, <1>8, <1>9, <1>10, DataOne

-----------------------------------------------------------------------------
(* bread and breada                                                        *)

(* What waits to be written is valid.                                      *)
LEMMA PendingValid ==
    ASSUME AllInv, NEW c \in Buf, Pending(c)
    PROVE  ~Has(c, "B_INVAL")
<1>1. BufData(c) /\ \A q \in Proc : ProcData(q)
  BY DEF AllInv, DataInv
<1>2. ASSUME NEW q \in Proc, bp[q] = c, call[q] = "realloc" PROVE ~Has(c, "B_INVAL")
  BY <1>1, <1>2, DistinctConstants DEF ProcData
<1>. QED  BY <1>1, <1>2 DEF Pending, BufData

(* A fragment of a buffer that waits to be written is in no other valid    *)
(* buffer.                                                                 *)
LEMMA Alone ==
    ASSUME AllInv, NEW b \in Buf, ~Has(b, "B_INVAL"), buf[b].vp # NoVnode
    PROVE  \A c \in Buf \ {b} : ~Has(c, "B_INVAL") => BufExt(c) \cap BufExt(b) = {}
BY DEF AllInv, UniqueInv, UniqueBlock

(* What bread is about to read has its last value on the disk, and nothing *)
(* in the buffer waits to be written.                                      *)
LEMMA OnDisk ==
    ASSUME AllInv, Roomy, InFile, NEW p \in Proc, NEW b \in Buf, bp[p] = b,
           call[p] \in ReadCalls, pc[p] = "got", ~Has(b, "B_DONE")
    PROVE  BufExt(b) \subseteq disk /\ ~Pending(b) /\ ~Has(b, "B_DELWRI")
<1>1. /\ b \notin io /\ ~Growing(b) /\ BufData(b)
      /\ Pending(b) <=> Has(b, "B_DELWRI")
      /\ ~Has(b, "B_INVAL") /\ buf[b].vp # NoVnode
  BY InHand DEF AllInv, DataInv, ReadCalls, GrowCalls
<1>2. ~Pending(b) /\ ~Has(b, "B_DELWRI")
  BY <1>1 DEF BufData
<1>3. BufExt(b) = ReqExt(CurReq(p))
  BY Sized DEF ReadCalls
<1>4. CurReq(p) \in ReadReqs \cup RaReqs
  BY DEF AllInv, UniqueInv, ArgsOf, CurReq, ReadCalls
<1>5. ASSUME NEW f \in BufExt(b) PROVE f \in disk
  <2>1. f \in Vnode \X BlkNo
    BY <1>3, <1>4, <1>5 DEF InFile
  <2>2. ASSUME NEW c \in Buf, f \in BufExt(c), Pending(c) PROVE FALSE
    <3>1. c # b /\ ~Has(c, "B_INVAL")
      BY <1>2, <2>2, PendingValid
    <3>2. BufExt(c) \cap BufExt(b) = {}
      BY <1>1, <3>1, Alone
    <3>. QED  BY <1>5, <2>2, <3>2
  <2>3. f \in disk \/ \E c \in Buf : f \in BufExt(c) /\ Pending(c)
    BY <2>1 DEF AllInv, DataInv, NoLostWrite, Pending
  <2>. QED  BY <2>2, <2>3
<1>. QED  BY <1>2, <1>5

(* The driver is given a buffer to read what the disk has.                 *)
LEMMA ReadingData ==
    ASSUME NEW b \in Buf, buf[b] \in BufRec, NEW x \in SUBSET {"B_ASYNC"},
           buf'[b] = [buf[b] EXCEPT !.flags = @ \cup {"B_READ"} \cup x],
           b \in io', BufExt(b) \subseteq disk',
           buf[b].flags \cap {"B_INVAL", "B_NOCACHE", "B_DELWRI", "B_DONE"} = {}
    PROVE  BufData(b)' /\ ~Has(b, "B_INVAL")'
<1>1. /\ buf'[b].flags = buf[b].flags \cup {"B_READ"} \cup x
      /\ buf'[b].vp = buf[b].vp /\ buf'[b].blkno = buf[b].blkno
      /\ buf'[b].bcount = buf[b].bcount
  BY DEF BufRec
<1>2. BufExt(b)' = BufExt(b)
  BY <1>1 DEF BufExt
<1>. QED  BY <1>1, <1>2 DEF BufData, Has

(* bread and breada start a read, or find the data there.                  *)
LEMMA StartData ==
    ASSUME AllInv, Roomy, InFile, NEW p \in Proc,
           BreadStart(p) \/ BreadaStart(p) \/ ReadAheadGot(p)
    PROVE  DataInv'
<1>0. /\ pc \in [Proc -> Label] /\ buf \in [Buf -> BufRec] /\ call \in [Proc -> Call]
      /\ bp \in [Proc -> Buf \cup {NoBuf}] /\ obp \in [Proc -> Buf \cup {NoBuf}]
      /\ ProcData(p)
  BY DEF AllInv, IInv, TypeOK, DataInv
<1>1. PICK b \in Buf : bp[p] = b
  BY DEF AllInv, IInv, PcInv, BreadStart, BreadaStart, ReadAheadGot, At
<1>2. /\ OthersKept(p) /\ UNCHANGED <<mem, disk, req, rareq, ret>>
      /\ cpu \in {p, NoProc} /\ pc[p] = "got" /\ call[p] \in ReadCalls
      /\ pc'[p] \in {"biowait", "rahead", "ralast"}
      /\ call'[p] \in ReadCalls
      /\ \/ bp'[p] = b /\ obp'[p] = obp[p] /\ call'[p] = call[p]
         \/ bp'[p] = NoBuf /\ obp'[p] \in {obp[p], b}
  BY <1>0, <1>1
  DEF BreadStart, BreadaStart, ReadAheadGot, At, Goto, OthersKept, args, data, ReadCalls
<1>3. /\ \A q \in Proc \ {p} : bp[q] # b /\ obp[q] # b
      /\ obp[p] # b /\ ~Has(b, "B_NOCACHE") /\ b \notin io /\ ~Cut(b) /\ ~Growing(b)
      /\ ~Has(b, "B_INVAL") /\ (Pending(b) <=> Has(b, "B_DELWRI"))
  BY <1>1, <1>2, InHand DEF ReadCalls, GrowCalls
<1>4. BufData(b) /\ Sane(buf[b])
  BY DEF AllInv, DataInv, PanicInv, BufOK
<1>5. /\ BufData(b)' /\ (obp'[p] = b \/ bp'[p] = b => ~Has(b, "B_INVAL")')
      /\ \A c \in Buf \ {b} : buf'[c] = buf[c] /\ (c \in io' <=> c \in io)
      /\ Has(b, "B_DELWRI") => Has(b, "B_DELWRI")' /\ BufExt(b)' = BufExt(b)
  <2>1. CASE ~Has(b, "B_DONE")
    <3>1. BufExt(b) \subseteq disk /\ ~Has(b, "B_DELWRI")
      BY <1>1, <1>2, <2>1, OnDisk
    <3>2. PICK x \in SUBSET {"B_ASYNC"} :
             /\ buf' = [buf EXCEPT ![b] = [buf[b] EXCEPT !.flags = @ \cup {"B_READ"} \cup x]]
             /\ io' = io \cup {b}
      <4>1. CASE BreadStart(p) \/ BreadaStart(p)
        <5>1. buf' = [buf EXCEPT ![b] = [buf[b] EXCEPT !.flags = @ \cup {"B_READ"} \cup {}]]
              /\ io' = io \cup {b}
          BY <1>0, <1>1, <2>1, <4>1 DEF BreadStart, BreadaStart, Strategy, Reading
        <5>. WITNESS {} \in SUBSET {"B_ASYNC"}
        <5>. QED  BY <5>1
      <4>2. CASE ReadAheadGot(p)
        <5>1. {"B_READ", "B_ASYNC"} = {"B_READ"} \cup {"B_ASYNC"}
          OBVIOUS
        <5>2. /\ buf' = [buf EXCEPT ![b] = ReadingAhead(b)] /\ io' = io \cup {b}
          BY <1>1, <2>1, <4>2 DEF ReadAheadGot, Strategy
        <5>3. ReadingAhead(b) = [buf[b] EXCEPT !.flags = @ \cup {"B_READ"} \cup {"B_ASYNC"}]
          BY <1>0, <5>1 DEF ReadingAhead, BufRec
        <5>. QED  BY <5>2, <5>3
      <4>. QED  BY <4>1, <4>2
    <3>3. /\ buf'[b] = [buf[b] EXCEPT !.flags = @ \cup {"B_READ"} \cup x]
          /\ \A c \in Buf \ {b} : buf'[c] = buf[c]
      BY <1>0, <3>2
    <3>4. BufData(b)' /\ ~Has(b, "B_INVAL")'
      BY <1>0, <1>2, <1>3, <2>1, <3>1, <3>2, <3>3, ReadingData DEF Has
    <3>. QED  BY <3>1, <3>2, <3>3, <3>4
  <2>2. CASE Has(b, "B_DONE") /\ BreadaStart(p)
    <3>1. UNCHANGED <<buf, io>>
      BY <1>1, <2>2 DEF BreadaStart
    <3>2. BufData(b)'
      BY <1>2, <1>3, <1>4, <3>1, SameBufData
    <3>. QED  BY <1>3, <3>1, <3>2 DEF Has, BufExt
  <2>3. CASE Has(b, "B_DONE") /\ ReadAheadGot(p)
    <3>1. buf' = [buf EXCEPT ![b] = Released(buf[b])] /\ io' = io /\ obp' = obp /\ bp'[p] = NoBuf
      BY <1>0, <1>1, <2>3 DEF ReadAheadGot, brelse
    <3>2. Has(b, "B_DELWRI") =>
             buf[b].flags \cap {"B_INVAL", "B_NOCACHE", "B_ERROR"} = {}
      BY <1>3, <1>4 DEF BufData, Sane, Has
    <3>3. Maps(buf[b]) /\ ~Has(b, "B_ERROR") => BufExt(b) \subseteq mem'[b]
      BY <1>2, <1>3, <1>4, <2>3 DEF BufData
    <3>4. /\ BufData(b)'
          /\ Has(b, "B_DELWRI") => Has(b, "B_DELWRI")' /\ BufExt(b)' = BufExt(b)
      BY <1>0, <1>3, <2>3, <3>1, <3>2, <3>3, ReleasedData DEF Has, BufExt
    <3>. QED  BY <1>0, <1>3, <3>1, <3>4, DistinctConstants
  <2>4. CASE Has(b, "B_DONE") /\ BreadStart(p)
    BY <1>1, <2>4 DEF BreadStart
  <2>. QED  BY <2>1, <2>2, <2>3, <2>4
<1>6. ProcData(p)'
  <2>1. obp[p] # NoBuf => obp[p] \in Buf /\ buf'[obp[p]] = buf[obp[p]]
    BY <1>0, <1>3, <1>5
  <2>2. obp'[p] # NoBuf => ~Has(obp[p], "B_INVAL")' \/ obp'[p] = b
    BY <1>0, <1>2, <2>1 DEF ProcData, Has
  <2>3. call'[p] # "realloc" /\ ~InOverlap(p)'
    BY <1>2 DEF ReadCalls, InOverlap, Writer
  <2>4. obp'[p] # NoBuf => (~Has(obp[p], "B_INVAL")' /\ obp'[p] = obp[p]) \/ obp'[p] = b
    BY <1>2, <2>2
  <2>. QED  BY <1>2, <1>5, <2>3, <2>4, DistinctConstants DEF ProcData, Has
<1>7. HandKept(p, b)
  BY <1>1, <1>2, DistinctConstants DEF HandKept
<1>8. Pending(b) => Pending(b)' /\ mem[b] \cap BufExt(b) \subseteq mem'[b] \cap BufExt(b)'
  BY <1>2, <1>3, <1>5 DEF Pending
<1>. QED  BY <1>2, <1>3, <1>5, <1>6, <1>7, <1>8, DataOne

-----------------------------------------------------------------------------
(* The client's steps                                                      *)

(* p stores new data in a part X of its buffer, which is then to be        *)
(* written: all other copies of X are out of date.                         *)
LEMMA StoreData ==
    ASSUME AllInv, Roomy, NEW p \in Proc, NEW b \in Buf, bp[p] = b, call[p] # "geteblk",
           cpu \in {p, NoProc}, OthersKept(p),
           NEW X \in SUBSET BufExt(b),
           mem' = [c \in Buf |-> IF c = b THEN mem[c] \cup X ELSE mem[c] \ X],
           disk' = disk \ X,
           \A c \in Buf \ {b} : buf'[c] = buf[c] /\ (c \in io' <=> c \in io),
           Pending(b)', BufExt(b)' = BufExt(b),
           HandKept(p, b), ProcData(p)', BufData(b)'
    PROVE  DataInv'
<1>1. /\ \A q \in Proc \ {p} : bp[q] # b /\ obp[q] # b
      /\ ~Has(b, "B_INVAL") /\ buf[b].vp # NoVnode
  BY InHand
<1>2. \A c \in Buf \ {b} : ~Has(c, "B_INVAL") => BufExt(c) \cap X = {}
  BY <1>1, Alone
<1>3. Elsewhere(b, X)
  BY <1>2 DEF Elsewhere
<1>4. FragsKept(b, X)
  BY DEF FragsKept
<1>5. ASSUME NEW q \in Proc \ {p} PROVE pc[q] # "allocbuf"
  BY DistinctConstants DEF AllInv, UniqueInv, Searched
<1>6. OthersSee(p, b)
  BY <1>1, <1>5 DEF OthersSee
<1>. QED  BY <1>3, <1>4, <1>6, DataFrame

(* An extent is its first n fragments and the rest.                        *)
LEMMA ExtSplit ==
    ASSUME NEW v, NEW k \in Nat, NEW n \in Nat, NEW m \in Nat, n <= m,
           NEW j, j = k + n, NEW i, i = m - n
    PROVE  Ext(v, k, m) = Ext(v, k, n) \cup Ext(v, j, i)
<1>1. k .. k + m - 1 = (k .. k + n - 1) \cup (j .. j + i - 1)
  OBVIOUS
<1>. QED  BY <1>1 DEF Ext

(* realloccg zeroes the new part of its buffer.                            *)
LEMMA ReallocDoneData ==
    ASSUME AllInv, Roomy, NEW p \in Proc, ReallocDone(p)
    PROVE  DataInv'
<1>0. /\ pc \in [Proc -> Label] /\ buf \in [Buf -> BufRec]
      /\ obp[p] \in Buf \cup {NoBuf} /\ ProcData(p)
  BY DEF AllInv, IInv, TypeOK, DataInv
<1>1. PICK b \in Buf : bp[p] = b
  BY DEF AllInv, IInv, PcInv, ReallocDone, At
<1>. DEFINE new == Ext(buf[b].vp, buf[b].blkno + rareq[p].size, req[p].size - rareq[p].size)
<1>2. /\ OthersKept(p) /\ UNCHANGED <<io, call, req, rareq, bp, obp, ret>>
      /\ pc[p] = "got" /\ cpu \in {p, NoProc} /\ pc'[p] = "hold" /\ call[p] = "realloc"
      /\ buf' = [buf EXCEPT ![b].flags = @ \cup {"B_DONE"}]
      /\ mem' = [c \in Buf |-> IF c = b THEN mem[c] \cup new ELSE mem[c] \ new]
      /\ disk' = disk \ new
  BY <1>0, <1>1 DEF ReallocDone, At, Goto, OthersKept, args
<1>3. /\ buf'[b].flags = buf[b].flags \cup {"B_DONE"}
      /\ buf'[b].vp = buf[b].vp /\ buf'[b].blkno = buf[b].blkno
      /\ buf'[b].bcount = buf[b].bcount /\ \A c \in Buf \ {b} : buf'[c] = buf[c]
  BY <1>0, <1>2 DEF BufRec
<1>4. /\ obp[p] # b /\ ~Has(b, "B_NOCACHE") /\ b \notin io /\ ~Has(b, "B_INVAL")
      /\ buf[b].bcount = req[p].size /\ Names(b, req[p])
  BY <1>1, <1>2, InHand, Sized DEF CurReq
<1>5. PICK n \in Nat, m \in Nat, k \in Nat :
         n = rareq[p].size /\ m = req[p].size /\ k = buf[b].blkno
  BY <1>0 DEF AllInv, IInv, TypeOK, Request0, BufRec
<1>6. n <= m /\ Ext(buf[b].vp, k, n) \subseteq mem[b]
  <2>1. Regrown(p)
    BY <1>0, <1>2 DEF ProcData
  <2>. QED  BY <1>1, <1>4, <1>5, <2>1 DEF Regrown, Names
<1>7. BufExt(b) = Ext(buf[b].vp, k, n) \cup new
  <2>1. PICK x, y : x = k + n /\ y = m - n
    OBVIOUS
  <2>2. Ext(buf[b].vp, k, m) = Ext(buf[b].vp, k, n) \cup Ext(buf[b].vp, x, y)
    BY <1>6, <2>1, ExtSplit
  <2>3. BufExt(b) = Ext(buf[b].vp, k, m)
    BY <1>4, <1>5 DEF BufExt
  <2>4. new = Ext(buf[b].vp, x, y)
    BY <1>5, <2>1
  <2>. QED  BY <2>2, <2>3, <2>4
<1>. HIDE DEF new
<1>8. BufExt(b)' = BufExt(b) /\ BufExt(b) \subseteq mem'[b] /\ mem[b] \subseteq mem'[b]
  BY <1>2, <1>3, <1>6, <1>7 DEF BufExt
<1>9. BufData(b)'
  <2>1. BufData(b)
    BY DEF AllInv, DataInv
  <2>. QED  BY <1>2, <1>3, <1>4, <1>8, <2>1 DEF BufData, Has
<1>10. ProcData(p)'
  <2>1. Regrown(p)'
    BY <1>0, <1>1, <1>2, <1>3, <1>8 DEF ProcData, Regrown
  <2>2. obp[p] # NoBuf => buf'[obp[p]] = buf[obp[p]]
    BY <1>0, <1>3, <1>4
  <2>. QED  BY <1>0, <1>1, <1>2, <1>3, <2>1, <2>2 DEF ProcData, InOverlap, Writer, Has
<1>11. Pending(b)' /\ HandKept(p, b)
  BY <1>1, <1>2 DEF Pending, HandKept
<1>. QED  BY <1>1, <1>2, <1>3, <1>7, <1>8, <1>9, <1>10, <1>11, StoreData

(* The client's call is over.                                              *)
LEMMA OverData ==
    ASSUME AllInv, NEW p \in Proc, NEW b \in Buf, bp[p] = b, pc[p] = "hold",
           call[p] \notin {"breada", "readahead"},
           bp'[p] = NoBuf, obp'[p] = obp[p], call'[p] = "none",
           pc'[p] = "idle" \/ (pc'[p] \in Writer /\ ret'[p] = "idle")
    PROVE  ProcData(p)' /\ HandKept(p, b)
<1>1. obp[p] = NoBuf
  BY DEF AllInv, IInv, PcInv
<1>2. ProcData(p)'
  BY <1>1, EmptyHanded DEF Writer
<1>. QED  BY <1>1, <1>2, DistinctConstants DEF HandKept

(* bwrite and bawrite.                                                     *)
LEMMA BwriteData ==
    ASSUME AllInv, Roomy, NEW p \in Proc, NEW extra \in WriteFlags, Bwrite(p, extra)
    PROVE  DataInv'
<1>0. /\ pc \in [Proc -> Label] /\ buf \in [Buf -> BufRec] /\ call \in [Proc -> Call]
      /\ bp \in [Proc -> Buf \cup {NoBuf}] /\ ret \in [Proc -> Label]
      /\ req \in [Proc -> Request0] /\ rareq \in [Proc -> Request0]
  BY DEF AllInv, IInv, TypeOK
<1>1. PICK b \in Buf : bp[p] = b
  BY DEF AllInv, IInv, PcInv, Bwrite, Writable, At
<1>. DEFINE h == [buf[b] EXCEPT !.flags = @ \cup extra]
<1>2. /\ pc[p] = "hold" /\ cpu \in {p, NoProc} /\ call[p] \in {"bread", "getblk", "realloc"}
      /\ Store(b) /\ bwrite(p, b, h, "idle") /\ Give(p) /\ Done(p) /\ UNCHANGED obp
  BY <1>1 DEF Bwrite, Writable, At
<1>3. /\ h \in BufRec /\ h.flags = buf[b].flags \cup extra
      /\ h.vp = buf[b].vp /\ h.blkno = buf[b].blkno /\ h.bcount = buf[b].bcount
      /\ extra \subseteq {"B_ASYNC", "B_AGE", "B_NOCACHE"}
  BY <1>0, ConstantTypes DEF BufRec, Flag
<1>. HIDE DEF h
<1>4. buf' = [buf EXCEPT ![b] = Writing(h)] /\ io' = io \cup {b}
  BY <1>2 DEF bwrite, Strategy
<1>5. /\ OthersKept(p) /\ bp'[p] = NoBuf /\ call'[p] = "none" /\ obp' = obp
      /\ pc'[p] = "idle" \/ (pc'[p] \in Writer /\ ret'[p] = "idle")
  BY <1>0, <1>2 DEF bwrite, Give, Done, Goto, OthersKept, Writer
<1>6. buf'[b] = Writing(h) /\ \A c \in Buf \ {b} : buf'[c] = buf[c]
  BY <1>0, <1>4
<1>7. /\ \A q \in Proc \ {p} : bp[q] # b /\ obp[q] # b
      /\ obp[p] # b /\ ~Has(b, "B_INVAL") /\ Has(b, "B_BUSY")
  BY <1>1, <1>2, InHand DEF AllInv, IInv, OwnInv, Owns
<1>8. mem' = [c \in Buf |-> IF c = b THEN mem[c] \cup BufExt(b) ELSE mem[c] \ BufExt(b)]
      /\ disk' = disk \ BufExt(b)
  BY <1>2 DEF Store
<1>9. \A q \in Proc : bp'[q] # b /\ obp'[q] # b
  BY <1>5, <1>7, DistinctConstants DEF OthersKept
<1>10. BufData(b)' /\ Pending(b)' /\ BufExt(b)' = BufExt(b)
  <2>1. BufExt(b) = Ext(h.vp, h.blkno, h.bcount) /\ BufExt(b) \subseteq mem'[b]
    BY <1>3, <1>8 DEF BufExt
  <2>2. "B_INVAL" \notin h.flags /\ "B_BUSY" \in h.flags /\ b \in io'
    BY <1>3, <1>4, <1>7 DEF Has
  <2>. QED  BY <1>3, <1>6, <1>9, <2>1, <2>2, WrittenData
<1>11. ProcData(p)' /\ HandKept(p, b)
  BY <1>1, <1>2, <1>5, OverData
<1>. QED  BY <1>1, <1>2, <1>4, <1>5, <1>6, <1>8, <1>10, <1>11, StoreData

(* bdwrite.                                                                *)
LEMMA BdwriteData ==
    ASSUME AllInv, Roomy, NEW p \in Proc, Bdwrite(p)
    PROVE  DataInv'
<1>0. /\ pc \in [Proc -> Label] /\ buf \in [Buf -> BufRec] /\ call \in [Proc -> Call]
      /\ bp \in [Proc -> Buf \cup {NoBuf}]
      /\ req \in [Proc -> Request0] /\ rareq \in [Proc -> Request0]
  BY DEF AllInv, IInv, TypeOK
<1>1. PICK b \in Buf : bp[p] = b
  BY DEF AllInv, IInv, PcInv, Bdwrite, Writable, At
<1>. DEFINE h == [buf[b] EXCEPT !.flags = @ \cup {"B_DELWRI", "B_DONE"}]
<1>2. /\ pc[p] = "hold" /\ cpu \in {p, NoProc} /\ call[p] \in {"bread", "getblk", "realloc"}
      /\ ~Has(b, "B_ERROR") /\ Store(b) /\ buf' = [buf EXCEPT ![b] = Released(h)]
      /\ Give(p) /\ Return(p) /\ UNCHANGED <<obp, ret, io>>
  BY <1>1 DEF Bdwrite, Writable, At, brelse
<1>3. /\ h \in BufRec /\ h.flags = buf[b].flags \cup {"B_DELWRI", "B_DONE"}
      /\ h.vp = buf[b].vp /\ h.blkno = buf[b].blkno /\ h.bcount = buf[b].bcount
  BY <1>0 DEF BufRec, Flag
<1>. HIDE DEF h
<1>4. /\ OthersKept(p) /\ bp'[p] = NoBuf /\ call'[p] = "none" /\ pc'[p] = "idle"
  BY <1>0, <1>2 DEF Give, Return, Done, Goto, OthersKept
<1>5. buf'[b] = Released(h) /\ \A c \in Buf \ {b} : buf'[c] = buf[c]
  BY <1>0, <1>2
<1>6. ~Has(b, "B_INVAL") /\ ~Has(b, "B_NOCACHE") /\ b \notin io
  BY <1>1, <1>2, InHand
<1>7. mem' = [c \in Buf |-> IF c = b THEN mem[c] \cup BufExt(b) ELSE mem[c] \ BufExt(b)]
      /\ disk' = disk \ BufExt(b)
  BY <1>2 DEF Store
<1>8. BufData(b)' /\ Pending(b)' /\ BufExt(b)' = BufExt(b)
  <2>1. BufExt(b) = Ext(h.vp, h.blkno, h.bcount) /\ BufExt(b) \subseteq mem'[b]
    BY <1>3, <1>7 DEF BufExt
  <2>2. /\ h.flags \cap {"B_INVAL", "B_NOCACHE", "B_ERROR"} = {}
        /\ "B_DONE" \in h.flags /\ "B_DELWRI" \in h.flags /\ b \notin io'
    BY <1>2, <1>3, <1>6 DEF Has
  <2>3. BufData(b)' /\ Has(b, "B_DELWRI")' /\ BufExt(b)' = BufExt(b)
    BY <1>3, <1>5, <2>1, <2>2, ReleasedData
  <2>. QED  BY <2>3 DEF Pending
<1>9. ProcData(p)' /\ HandKept(p, b)
  BY <1>1, <1>2, <1>4, OverData
<1>. QED  BY <1>1, <1>2, <1>4, <1>5, <1>7, <1>8, <1>9, StoreData

(* brelse.                                                                 *)
LEMMA BrelseData ==
    ASSUME AllInv, Roomy, NEW p \in Proc, NEW extra \in RelFlags, Brelse(p, extra)
    PROVE  DataInv'
<1>0. /\ pc \in [Proc -> Label] /\ buf \in [Buf -> BufRec] /\ call \in [Proc -> Call]
      /\ bp \in [Proc -> Buf \cup {NoBuf}]
      /\ req \in [Proc -> Request0] /\ rareq \in [Proc -> Request0]
  BY DEF AllInv, IInv, TypeOK
<1>1. PICK b \in Buf : bp[p] = b
  BY DEF AllInv, IInv, PcInv, Brelse, At
<1>. DEFINE h == [buf[b] EXCEPT !.flags = @ \cup extra]
<1>2. /\ pc[p] = "hold" /\ cpu \in {p, NoProc} /\ call[p] \in {"bread", "geteblk"}
      /\ "B_NOCACHE" \in extra => ~Has(b, "B_DELWRI")
      /\ buf' = [buf EXCEPT ![b] = Released(h)]
      /\ Give(p) /\ Return(p) /\ UNCHANGED <<obp, ret, io, mem, disk>>
  BY <1>1 DEF Brelse, At, brelse, data
<1>3. /\ h \in BufRec /\ h.flags = buf[b].flags \cup extra
      /\ h.vp = buf[b].vp /\ h.blkno = buf[b].blkno /\ h.bcount = buf[b].bcount
      /\ extra \subseteq {"B_AGE", "B_NOCACHE"}
  BY <1>0, ConstantTypes DEF BufRec, Flag
<1>. HIDE DEF h
<1>4. /\ OthersKept(p) /\ bp'[p] = NoBuf /\ call'[p] = "none" /\ pc'[p] = "idle"
  BY <1>0, <1>2 DEF Give, Return, Done, Goto, OthersKept
<1>5. buf'[b] = Released(h) /\ \A c \in Buf \ {b} : buf'[c] = buf[c]
  BY <1>0, <1>2
<1>6. /\ ~Has(b, "B_NOCACHE") /\ b \notin io /\ ~Growing(b) /\ ~Cut(b)
      /\ Pending(b) <=> Has(b, "B_DELWRI")
      /\ \A q \in Proc \ {p} : bp[q] # b /\ obp[q] # b
  BY <1>1, <1>2, InHand DEF GrowCalls
<1>7. BufData(b) /\ Sane(buf[b])
  BY DEF AllInv, DataInv, PanicInv, BufOK
<1>8. /\ BufData(b)'
      /\ Has(b, "B_DELWRI") => Has(b, "B_DELWRI")' /\ BufExt(b)' = BufExt(b)
  <2>1. BufExt(b) = Ext(h.vp, h.blkno, h.bcount)
    BY <1>3 DEF BufExt
  <2>2. "B_DELWRI" \in h.flags => /\ h.flags \cap {"B_INVAL", "B_NOCACHE", "B_ERROR"} = {}
                                  /\ "B_DONE" \in h.flags
    BY <1>2, <1>3, <1>6, <1>7 DEF Has, BufData, Sane
  <2>3. Maps(h) /\ "B_DONE" \in h.flags /\ "B_ERROR" \notin h.flags
           => BufExt(b) \subseteq mem'[b]
    BY <1>2, <1>3, <1>6, <1>7 DEF BufData, Maps, Has
  <2>. QED  BY <1>2, <1>3, <1>5, <1>6, <2>1, <2>2, <2>3, ReleasedData DEF Has
<1>9. ProcData(p)' /\ HandKept(p, b)
  BY <1>1, <1>2, <1>4, OverData
<1>10. Pending(b) => Pending(b)' /\ mem[b] \cap BufExt(b) \subseteq mem'[b] \cap BufExt(b)'
  BY <1>2, <1>6, <1>8 DEF Pending
<1>. QED  BY <1>2, <1>4, <1>5, <1>6, <1>8, <1>9, <1>10, DataOne

-----------------------------------------------------------------------------
(* The disk interrupt                                                      *)

(* What the driver had read is what the disk has, and what it had to write *)
(* is there now.                                                           *)
LEMMA BiodoneData ==
    ASSUME AllInv, NEW b \in Buf, NEW err \in BOOLEAN, Biodone(b, err)
    PROVE  DataInv'
<1>. DEFINE h == [buf[b] EXCEPT !.flags =
                    @ \cup {"B_DONE"} \cup (IF err THEN {"B_ERROR"} ELSE {})]
<1>0. buf \in [Buf -> BufRec] /\ mem \in [Buf -> SUBSET Frag]
  BY DEF AllInv, IInv, TypeOK
<1>1. /\ b \in io /\ io' = io \ {b}
      /\ UNCHANGED <<pc, call, req, rareq, bp, obp, ret>>
      /\ buf' = [buf EXCEPT ![b] = IF "B_ASYNC" \in h.flags THEN Released(h)
                                   ELSE [h EXCEPT !.flags = @ \ {"B_WANTED"}]]
      /\ IF "B_READ" \in h.flags
         THEN /\ mem' = [mem EXCEPT ![b] = IF err THEN {} ELSE disk \cap BufExt(b)]
              /\ disk' = disk
         ELSE /\ disk' = IF err THEN disk \cup BufExt(b)
                         ELSE (disk \ BufExt(b)) \cup (mem[b] \cap BufExt(b))
              /\ mem' = [mem EXCEPT ![b] = IF err THEN {} ELSE @]
  BY DEF Biodone, brelse, args
<1>2. /\ h \in BufRec
      /\ h.flags = buf[b].flags \cup {"B_DONE"} \cup (IF err THEN {"B_ERROR"} ELSE {})
      /\ h.vp = buf[b].vp /\ h.blkno = buf[b].blkno /\ h.bcount = buf[b].bcount
  BY <1>0 DEF BufRec, Flag
<1>. HIDE DEF h
<1>3. /\ BufData(b) /\ ~Has(b, "B_INVAL") /\ ~Has(b, "B_DELWRI") /\ buf[b].vp # NoVnode
      /\ BufExt(b) \subseteq IF Has(b, "B_READ") THEN disk ELSE mem[b]
  BY <1>1 DEF AllInv, DataInv, BufData, PanicInv, BufOK, Whole
<1>4. ASSUME NEW q \in Proc
      PROVE  /\ bp[q] = b => pc[q] = "biowait" /\ call[q] = "bread" /\ ~Has(b, "B_ASYNC")
             /\ obp[q] = b => ~Has(b, "B_ASYNC")
  BY <1>1 DEF AllInv, IInv, IoInv, OwnInv, Owns, PanicInv, CallBy
<1>5. "B_READ" \in h.flags <=> Has(b, "B_READ")
  BY <1>2 DEF Has
<1>6. /\ \A c \in Buf \ {b} : buf'[c] = buf[c] /\ mem'[c] = mem[c] /\ (c \in io' <=> c \in io)
      /\ buf'[b] = IF "B_ASYNC" \in h.flags THEN Released(h)
                   ELSE [h EXCEPT !.flags = @ \ {"B_WANTED"}]
      /\ b \notin io'
  BY <1>0, <1>1
<1>7. BufExt(b) = Ext(h.vp, h.blkno, h.bcount)
  BY <1>2 DEF BufExt
<1>8. "B_ERROR" \notin h.flags => BufExt(b) \subseteq mem'[b]
  <2>1. "B_ERROR" \notin h.flags => ~err
    BY <1>2
  <2>. QED  BY <1>0, <1>1, <1>3, <1>5, <2>1
<1>9. BufData(b)'
  <2>1. CASE "B_ASYNC" \in h.flags
    <3>1. buf'[b] = Released(h) /\ "B_DELWRI" \notin h.flags
      BY <1>2, <1>3, <1>6, <2>1 DEF Has
    <3>. QED  BY <1>2, <1>6, <1>7, <1>8, <3>1, ReleasedData
  <2>2. CASE "B_ASYNC" \notin h.flags
    <3>1. buf'[b] = [h EXCEPT !.flags = @ \ {"B_WANTED"}]
      BY <1>6, <2>2
    <3>2. /\ buf'[b].flags = h.flags \ {"B_WANTED"}
          /\ buf'[b].vp = h.vp /\ buf'[b].blkno = h.blkno /\ buf'[b].bcount = h.bcount
      BY <1>2, <3>1 DEF BufRec
    <3>3. BufExt(b)' = BufExt(b)
      BY <1>7, <3>2 DEF BufExt
    <3>4. ~Has(b, "B_DELWRI")' /\ (Has(b, "B_ERROR")' <=> "B_ERROR" \in h.flags)
      BY <1>2, <1>3, <3>2 DEF Has
    <3>5. Has(b, "B_NOCACHE")' => /\ Has(b, "B_BUSY")'
                                  /\ \A q \in Proc : bp'[q] # b /\ obp'[q] # b
      BY <1>1, <1>2, <1>3, <3>2 DEF BufData, Has
    <3>. QED  BY <1>6, <1>8, <3>3, <3>4, <3>5 DEF BufData
  <2>. QED  BY <2>1, <2>2
<1>10. OthersKept(NoProc)
  BY <1>1 DEF OthersKept
<1>11. ASSUME NEW q \in Proc, bp[q] = b \/ obp[q] = b PROVE SameFlag(b, "B_INVAL")
  <2>1. "B_ASYNC" \notin h.flags
    BY <1>2, <1>4, <1>11 DEF Has
  <2>2. buf'[b].flags = h.flags \ {"B_WANTED"}
    BY <1>2, <1>6, <2>1 DEF BufRec
  <2>. QED  BY <1>2, <2>2 DEF SameFlag
<1>12. OthersSee(NoProc, b)
  <2>1. ASSUME NEW q \in Proc, pc[q] = "allocbuf", bp[q] # b
        PROVE  mem[bp[q]] \subseteq mem'[bp[q]]
    BY <1>6, <2>1 DEF AllInv, IInv, PcInv
  <2>. QED  BY <1>4, <1>11, <2>1 DEF OthersSee
<1>13. CASE Has(b, "B_READ")
  <2>1. ~Pending(b)
    BY <1>3, <1>4, <1>13 DEF Pending
  <2>2. Elsewhere(b, {}) /\ FragsKept(b, {})
    BY <1>1, <1>5, <1>6, <1>13, <2>1 DEF Elsewhere, FragsKept
  <2>. QED  BY <1>9, <1>10, <1>12, <2>2, DistinctConstants, DataFrame
<1>14. CASE ~Has(b, "B_READ")
  <2>1. BufExt(b) \subseteq disk' /\ disk \ BufExt(b) \subseteq disk'
    BY <1>1, <1>3, <1>5, <1>14
  <2>2. Elsewhere(b, BufExt(b))
    BY <1>3, <1>6, <2>1, Alone DEF Elsewhere
  <2>3. FragsKept(b, BufExt(b))
    BY <2>1 DEF FragsKept
  <2>. QED  BY <1>9, <1>10, <1>12, <2>2, <2>3, DistinctConstants, DataFrame
<1>. QED  BY <1>13, <1>14

-----------------------------------------------------------------------------
(* The theorems                                                            *)

(* DataInv is inductive, relative to the others.                           *)
LEMMA NextData ==
    ASSUME Roomy, InFile PROVE AllInv /\ WholeReads /\ [Next]_vars => DataInv'
<1>. SUFFICES ASSUME AllInv, WholeReads, [Next]_vars PROVE DataInv'
  OBVIOUS
<1>0. IInv /\ UniqueInv
  BY DEF AllInv
<1>1. ASSUME NEW p \in Proc, NewCall(p) PROVE DataInv'
  BY <1>1, NewCallData
<1>2. ASSUME NEW p \in Proc, ClientStep(p) PROVE DataInv'
  BY <1>2, BrelseData, BwriteData, BdwriteData, StepOnData DEF ClientStep
<1>3. ASSUME NEW p \in Proc, KernelStep(p) PROVE DataInv'
  <2>1. ASSUME NEW b \in Buf,
               \/ WaitBusy(p, b) \/ WriteDirty(p, b) \/ GetblkHit(p, b)
               \/ GetnewbufPush(p, b) \/ GetblkNew(p, b) \/ GeteblkNew(p, b)
               \/ AllocbufTake(p, b) \/ AllocbufShrink(p, b)
               \/ OverlapInval(p, b) \/ FlushPush(p, b) \/ BinvalfreeInval(p, b)
        PROVE  DataInv'
    BY <1>0, <2>1, MarkActionsData, PushActionsData, TakeData, InvalData, NoMemoryMoved
  <2>2. CASE GetblkMiss(p) \/ BreallocSame(p) \/ OverlapDone(p) \/ GotReady(p)
             \/ BreadDone(p) \/ GetnewbufWait(p) \/ Biowait(p)
    BY <2>2, MoveData
  <2>3. CASE BlkflushDone(p) \/ BflushDone(p) \/ BinvalfreeDone(p)
    BY <2>3, NewCallData
  <2>4. CASE ReadAhead(p) \/ BreadaLast(p)
    BY <2>4, StepOnData
  <2>5. CASE BwriteDone(p) \/ SetAge(p)
    BY <2>5, BwriteDoneData, MarkActionsData
  <2>6. CASE BreallocWrite(p) \/ BreallocShrink(p) \/ BreallocGrow(p)
    BY <2>6, BreallocWriteData, BreallocShrinkData, BreallocGrowData
  <2>7. CASE AllocbufFits(p) \/ AllocbufGrow(p)
    BY <1>0, <2>7, AllocbufFitsData, NoMemoryMoved
  <2>8. CASE BreadStart(p) \/ BreadaStart(p) \/ ReadAheadGot(p)
    BY <2>8, StartData
  <2>9. CASE ReallocDone(p)
    BY <2>9, ReallocDoneData
  <2>. QED
    BY <1>3, <2>1, <2>2, <2>3, <2>4, <2>5, <2>6, <2>7, <2>8, <2>9 DEF KernelStep
<1>4. CASE Interrupt
  BY <1>4, BiodoneData DEF Interrupt
<1>5. CASE UNCHANGED vars
  <2>1. UNCHANGED <<pc, call, req, rareq, bp, obp, ret, buf, io, mem, disk>>
    BY <1>5 DEF vars
  <2>2. DataInv
    BY DEF AllInv
  <2>3. NoLostWrite'
    BY <2>1, <2>2 DEF DataInv, NoLostWrite, BufExt, Has
  <2>4. ASSUME NEW b \in Buf PROVE BufData(b)'
    BY <2>1, <2>2 DEF DataInv, BufData, BufExt, Has, Maps, Growing, Cut
  <2>5. ASSUME NEW p \in Proc PROVE ProcData(p)'
    BY <2>1, <2>2
    DEF DataInv, ProcData, InOverlap, NotLonger, Read, Regrown, ReqExt, CurReq, Has
  <2>. QED  BY <2>3, <2>4, <2>5 DEF DataInv
<1>. QED  BY <1>1, <1>2, <1>3, <1>4, <1>5 DEF Next

(* While the clients keep to WholeReads, everything above holds together:  *)
(* the driver never has a dirty buffer, so PanicInv needs nothing more.    *)
LEMMA AllInductive ==
    ASSUME Roomy, InFile PROVE Spec /\ []WholeReads => []AllInv
<1>1. Init => PanicInv /\ UniqueInv /\ DataInv
  BY InitPanic, InitUnique, InitData
<1>2. IInv /\ DataInv => CleanIo
  BY DEF IInv, TypeOK, DataInv, BufData, CleanIo
<1>3. /\ IInv /\ IInv' /\ PanicInv /\ UniqueInv /\ DataInv /\ WholeReads /\ [Next]_vars
      => PanicInv' /\ UniqueInv' /\ DataInv'
  <2>1. IInv /\ PanicInv /\ DataInv /\ [Next]_vars => PanicInv'
    BY <1>2, NextPanic
  <2>2. IInv /\ IInv' /\ UniqueInv /\ [Next]_vars => UniqueInv'
    BY NextUnique
  <2>3. IInv /\ PanicInv /\ UniqueInv /\ DataInv /\ WholeReads /\ [Next]_vars => DataInv'
    BY NextData DEF AllInv
  <2>. QED  BY <2>1, <2>2, <2>3
<1>. QED  BY Inductive, <1>1, <1>3, PTL DEF Spec, AllInv

(* No client has to be trusted further where no block is read at a larger  *)
(* size than it is read or written at elsewhere.                           *)
THEOREM ReadsWhole == ASSUME ReadsNoMore PROVE Spec => []WholeReads
<1>1. IInv /\ PanicInv => WholeReads
  <2>. SUFFICES ASSUME IInv, PanicInv, NEW p \in Proc, pc[p] = "brealloc",
                       call[p] \in ReadCalls, Has(bp[p], "B_DELWRI")
                PROVE  CurReq(p).size <= buf[bp[p]].bcount
    BY DEF WholeReads
  <2>1. PICK b \in Buf : bp[p] = b
    BY DEF IInv, PcInv
  <2>2. /\ Covers(buf[b].vp, buf[b].blkno, buf[b].bcount) /\ Names(b, CurReq(p))
        /\ CurReq(p) \in ReadReqs \cup RaReqs
    BY <2>1, DistinctConstants
    DEF PanicInv, BufOK, Sane, Has, CallBy, HeldBy, CurReq, ReadCalls
  <2>. QED  BY <2>1, <2>2 DEF Covers, Names
<1>2. IInv /\ PanicInv => CleanIo
  BY DEF IInv, TypeOK, PanicInv, BufOK, CleanIo
<1>. QED  BY Inductive, InitPanic, NextPanic, <1>1, <1>2, PTL DEF Spec

(* For any number of processes, buffers and blocks, with read-ahead,       *)
(* delayed writes, shrinking and growing blocks and failing transfers:     *)
(* what bread hands its client is the last value written.                  *)
THEOREM CurrentReads ==
    ASSUME Roomy, InFile PROVE Spec /\ []WholeReads => []ReadsCurrent
<1>1. AllInv => ReadsCurrent
  <2>. SUFFICES ASSUME AllInv, NEW p \in Proc, pc[p] = "hold",
                       call[p] \in {"bread", "realloc"}, ~Has(bp[p], "B_ERROR")
                PROVE  ReqExt(req[p]) \subseteq mem[bp[p]]
    BY DEF ReadsCurrent
  <2>1. PICK b \in Buf : bp[p] = b
    BY DEF AllInv, IInv, PcInv
  <2>2. ProcData(p) /\ BufData(b) /\ ~Cut(b)
    BY <2>1, InHand DEF AllInv, DataInv
  <2>3. BufExt(b) = ReqExt(req[p]) /\ Maps(buf[b]) /\ Has(b, "B_DONE")
    BY <2>1, <2>2, Sized DEF CurReq, ProcData
  <2>. QED  BY <2>1, <2>2, <2>3 DEF BufData
<1>. QED  BY AllInductive, <1>1, PTL

(* The last value written to a fragment is never lost: not by a reuse, a   *)
(* cut or an invalidation of its buffer.                                   *)
THEOREM WritesKept ==
    ASSUME Roomy, InFile PROVE Spec /\ []WholeReads => []NoLostWrite
<1>1. AllInv => NoLostWrite
  BY DEF AllInv, DataInv
<1>. QED  BY AllInductive, <1>1, PTL

(* A step moves at most one process.                                       *)
LEMMA OneMoves ==
    ASSUME pc \in [Proc -> Label], NEW q \in Proc, NewCall(q) \/ ClientStep(q) \/ KernelStep(q)
    PROVE  \A p \in Proc \ {q} : pc'[p] = pc[p]
<1>1. ASSUME NEW l, Goto(q, l) PROVE \A p \in Proc \ {q} : pc'[p] = pc[p]
  BY <1>1 DEF Goto
<1>2. ASSUME NEW c, NEW r, NEW l, Enter(q, c, r, l) PROVE \E m : Goto(q, m)
  BY <1>2 DEF Enter
<1>3. ASSUME NEW b, NEW h, NEW l, bwrite(q, b, h, l) PROVE \E m : Goto(q, m)
  BY <1>3 DEF bwrite
<1>4. CASE NewCall(q)
  BY <1>1, <1>2, <1>4
  DEF NewCall, bread, breada, getblk, geteblk, blkflush, bflush, binvalfree
<1>5. CASE ClientStep(q)
  BY <1>1, <1>3, <1>5 DEF ClientStep, Brelse, Bwrite, Bdwrite, Realloc, Return
<1>6. CASE KernelStep(q)
  <2>1. ASSUME NEW b \in Buf,
               \/ WaitBusy(q, b) \/ WriteDirty(q, b) \/ GetblkHit(q, b)
               \/ GetnewbufPush(q, b) \/ GetblkNew(q, b) \/ GeteblkNew(q, b)
               \/ AllocbufTake(q, b) \/ AllocbufShrink(q, b)
               \/ OverlapInval(q, b) \/ FlushPush(q, b) \/ BinvalfreeInval(q, b)
        PROVE  pc' = pc \/ \E m : Goto(q, m)
    BY <1>3, <2>1
    DEF WaitBusy, WriteDirty, GetblkHit, GetnewbufPush, GetblkNew, GeteblkNew, AllocbufTake,
        AllocbufShrink, OverlapInval, FlushPush, BinvalfreeInval, Sleep
  <2>2. CASE \/ GetblkMiss(q) \/ GetnewbufWait(q)
             \/ BreallocSame(q) \/ BreallocWrite(q) \/ BreallocShrink(q) \/ BreallocGrow(q)
             \/ OverlapDone(q) \/ AllocbufFits(q) \/ AllocbufGrow(q)
    BY <1>1, <1>3, <2>2
    DEF GetblkMiss, GetnewbufWait, BreallocSame, BreallocWrite, BreallocShrink, BreallocGrow,
        OverlapDone, AllocbufFits, AllocbufGrow, Branch, Sleep
  <2>3. CASE \/ GotReady(q) \/ BreadStart(q) \/ BreadaStart(q) \/ ReadAhead(q)
             \/ ReadAheadGot(q) \/ BreadaLast(q) \/ ReallocDone(q)
    BY <1>1, <2>3
    DEF GotReady, BreadStart, BreadaStart, ReadAhead, ReadAheadGot, BreadaLast, ReallocDone,
        Branch
  <2>4. CASE \/ Biowait(q) \/ BreadDone(q) \/ BwriteDone(q) \/ SetAge(q)
             \/ BlkflushDone(q) \/ BflushDone(q) \/ BinvalfreeDone(q)
    BY <1>1, <2>4
    DEF Biowait, BreadDone, BwriteDone, SetAge, BlkflushDone, BflushDone, BinvalfreeDone,
        Branch, Sleep, BwriteReturn, Return
  <2>. QED  BY <1>1, <1>6, <2>1, <2>2, <2>3, <2>4 DEF KernelStep
<1>. QED  BY <1>4, <1>5, <1>6

(* blkflush returns by BlkflushDone alone.                                 *)
LEMMA FlushEnds ==
    ASSUME IInv, [Next]_vars, NEW p \in Proc, pc[p] = "blkflush", pc'[p] = "idle"
    PROVE  BlkflushDone(p)
<1>0. pc \in [Proc -> Label] /\ buf \in [Buf -> BufRec]
  BY DEF IInv, TypeOK
<1>1. ASSUME NEW q \in Proc, NewCall(q) \/ ClientStep(q) \/ KernelStep(q) PROVE q = p
  BY <1>0, <1>1, OneMoves
<1>2. ~NewCall(p)
  BY DEF NewCall, bread, breada, getblk, geteblk, blkflush, bflush, binvalfree, Enter, At
<1>3. ~ClientStep(p)
  BY DEF ClientStep, Brelse, Bwrite, Bdwrite, Realloc, Writable, At
<1>4. ASSUME NEW b \in Buf,
             \/ WaitBusy(p, b) \/ WriteDirty(p, b) \/ GetblkHit(p, b)
             \/ GetnewbufPush(p, b) \/ GetblkNew(p, b) \/ GeteblkNew(p, b)
             \/ AllocbufTake(p, b) \/ AllocbufShrink(p, b)
             \/ OverlapInval(p, b) \/ FlushPush(p, b) \/ BinvalfreeInval(p, b)
      PROVE  FALSE
  <2>1. CASE WaitBusy(p, b)
    BY <2>1 DEF WaitBusy, Sleep
  <2>2. CASE WriteDirty(p, b)
    <3>1. PICK h : bwrite(p, b, h, "blkflush")
      BY <2>2 DEF WriteDirty
    <3>. QED  BY <1>0, <3>1 DEF bwrite, Goto
  <2>. QED
    BY <1>4, <2>1, <2>2
    DEF GetblkHit, GetnewbufPush, GetblkNew, GeteblkNew, AllocbufTake, AllocbufShrink,
        GetnewbufTake, OverlapInval, FlushPush, BinvalfreeInval, At
<1>5. CASE KernelStep(p)
  BY <1>4, <1>5
  DEF KernelStep, GetblkMiss, GetnewbufWait, BreallocSame, BreallocWrite, BreallocShrink,
      BreallocGrow, OverlapDone, AllocbufFits, AllocbufGrow, GotReady, BreadStart, BreadaStart,
      ReadAhead, ReadAheadGot, BreadaLast, ReallocDone, Biowait, BreadDone, BwriteDone, SetAge,
      BflushDone, BinvalfreeDone, At
<1>6. ~Interrupt /\ ~UNCHANGED vars
  BY DEF Interrupt, Biodone, vars
<1>. QED  BY <1>1, <1>2, <1>3, <1>5, <1>6 DEF Next

(* fsync, by way of blkflush: when it returns, the disk has the last value *)
(* of every fragment of the block, whoever had the buffer meanwhile.       *)
THEOREM FlushesReach ==
    ASSUME Roomy, InFile PROVE Spec /\ []WholeReads => BlkflushFlushes
<1>. DEFINE Reaches(p) == pc[p] = "blkflush" /\ pc'[p] = "idle"
                             => ReqExt(req[p]) \cap (Vnode \X BlkNo) \subseteq disk'
<1>1. ASSUME AllInv, [Next]_vars, NEW p \in Proc PROVE Reaches(p)
  <2>. SUFFICES ASSUME pc[p] = "blkflush", pc'[p] = "idle",
                       NEW f \in ReqExt(req[p]) \cap (Vnode \X BlkNo)
                PROVE  f \in disk'
    OBVIOUS
  <2>1. BlkflushDone(p)
    BY <1>1, FlushEnds DEF AllInv
  <2>2. disk' = disk /\ \A e \in Buf : Overlaps(e, ReqExt(req[p])) => Flushed(e)
    BY <2>1 DEF BlkflushDone, data, Found, At
  <2>3. ASSUME NEW c \in Buf, f \in BufExt(c), Pending(c) PROVE FALSE
    <3>1. ~Has(c, "B_INVAL")
      BY <1>1, <2>3, PendingValid
    <3>2. ~Has(c, "B_BUSY") /\ ~Has(c, "B_DELWRI")
      BY <2>2, <2>3, <3>1 DEF Overlaps, Flushed
    <3>. QED  BY <1>1, <2>3, <3>2 DEF Pending, AllInv, IInv, FlagInv, OwnInv, Owns
  <2>4. f \in disk \/ \E c \in Buf : f \in BufExt(c) /\ Pending(c)
    BY <1>1 DEF AllInv, DataInv, NoLostWrite, Pending
  <2>. QED  BY <2>2, <2>3, <2>4
<1>2. AllInv /\ [Next]_vars => [\A p \in Proc : Reaches(p)]_vars
  BY <1>1
<1>. QED  BY AllInductive, <1>2, PTL DEF Spec, BlkflushFlushes

(* The three together, for a workload that keeps to WholeReads by its      *)
(* sizes.                                                                  *)
THEOREM DataSafe ==
    ASSUME Roomy, InFile, ReadsNoMore
    PROVE  Spec => []ReadsCurrent /\ []NoLostWrite /\ BlkflushFlushes
BY ReadsWhole, CurrentReads, WritesKept, FlushesReach, PTL
=============================================================================
