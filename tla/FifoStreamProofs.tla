-------------------------- MODULE FifoStreamProofs --------------------------
(***************************************************************************)
(* Proof that a fifo whose buffers have links of their own implements      *)
(* ByteStream, under the mapping of MCFifo.                                *)
(***************************************************************************)
EXTENDS FifoProofs, MCFifo, SequenceTheorems

-----------------------------------------------------------------------------
(* Buffers and offsets                                                     *)

(* The cell at offset o of the buffers B, and the n cells from offset r.   *)
CellAt(B, o) == B[BufOf(o)][OffOf(o) + 1]
Window(B, r, n) == [k \in 1 .. n |-> CellAt(B, r + k - 1)]

LEMMA DivMod ==
    ASSUME NEW o \in Nat
    PROVE  /\ BufOf(o) \in Nat /\ BufOf(o) >= 1 /\ OffOf(o) \in 0 .. PIPE_BSZ - 1
           /\ o = (BufOf(o) - 1) * PIPE_BSZ + OffOf(o)
BY Sizes DEF BufOf, OffOf

LEMMA Multiples ==
    ASSUME NEW a \in Nat, NEW b \in Nat, a < b
    PROVE  a * PIPE_BSZ + PIPE_BSZ <= b * PIPE_BSZ
<1>1. PICK d \in Nat : b = a + 1 + d
  <2>1. b - a - 1 \in Nat /\ b = a + 1 + (b - a - 1)  OBVIOUS
  <2>. QED  BY <2>1
<1>2. (a + 1 + d) * PIPE_BSZ = a * PIPE_BSZ + PIPE_BSZ + d * PIPE_BSZ  BY Sizes
<1>3. d * PIPE_BSZ \in Nat /\ a * PIPE_BSZ \in Nat  BY Sizes
<1>. QED  BY <1>1, <1>2, <1>3, Sizes

(* Quotient and remainder are unique.                                      *)
LEMMA DivModIs ==
    ASSUME NEW o \in Nat, NEW q \in Nat, NEW r \in 0 .. PIPE_BSZ - 1, o = q * PIPE_BSZ + r
    PROVE  BufOf(o) = q + 1 /\ OffOf(o) = r
<1>. DEFINE a == BufOf(o) - 1
            s == OffOf(o)
<1>1. a \in Nat /\ s \in 0 .. PIPE_BSZ - 1 /\ o = a * PIPE_BSZ + s /\ BufOf(o) = a + 1
  BY DivMod
<1>. HIDE DEF a, s
<1>2. a * PIPE_BSZ \in Nat /\ q * PIPE_BSZ \in Nat  BY <1>1, Sizes
<1>3. ~(a < q)
  <2>. SUFFICES ASSUME a < q PROVE FALSE
    OBVIOUS
  <2>1. a * PIPE_BSZ + PIPE_BSZ <= q * PIPE_BSZ  BY <1>1, Multiples
  <2>. QED  BY <1>1, <1>2, <2>1, Sizes
<1>4. ~(q < a)
  <2>. SUFFICES ASSUME q < a PROVE FALSE
    OBVIOUS
  <2>1. q * PIPE_BSZ + PIPE_BSZ <= a * PIPE_BSZ  BY <1>1, Multiples
  <2>. QED  BY <1>1, <1>2, <2>1, Sizes
<1>5. a = q  BY <1>1, <1>3, <1>4
<1>6. s = r  BY <1>1, <1>2, <1>5, Sizes
<1>. QED  BY <1>1, <1>5, <1>6 DEF s

(* Offsets of one buffer.                                                  *)
LEMMA SameBuffer ==
    ASSUME NEW o \in Nat, NEW j \in Nat, OffOf(o) + j < PIPE_BSZ
    PROVE  BufOf(o + j) = BufOf(o) /\ OffOf(o + j) = OffOf(o) + j
<1>1. PICK q \in Nat, r \in 0 .. PIPE_BSZ - 1 : q = BufOf(o) - 1 /\ r = OffOf(o) /\ o = q * PIPE_BSZ + r
  BY DivMod
<1>2. q * PIPE_BSZ \in Nat  BY Sizes
<1>3. r + j \in 0 .. PIPE_BSZ - 1 /\ o + j = q * PIPE_BSZ + (r + j) /\ o + j \in Nat
  BY <1>1, <1>2, Sizes
<1>4. BufOf(o + j) = q + 1 /\ OffOf(o + j) = r + j  BY <1>3, DivModIs
<1>. QED  BY <1>1, <1>4, DivMod

(* The same cell one buffer further on.                                    *)
LEMMA NextBuffer ==
    ASSUME NEW o \in Nat
    PROVE  BufOf(o + PIPE_BSZ) = BufOf(o) + 1 /\ OffOf(o + PIPE_BSZ) = OffOf(o)
<1>1. PICK q \in Nat, r \in 0 .. PIPE_BSZ - 1 : q = BufOf(o) - 1 /\ r = OffOf(o) /\ o = q * PIPE_BSZ + r
  BY DivMod
<1>2. q * PIPE_BSZ \in Nat /\ (q + 1) * PIPE_BSZ = q * PIPE_BSZ + PIPE_BSZ  BY Sizes
<1>3. o + PIPE_BSZ = (q + 1) * PIPE_BSZ + r /\ o + PIPE_BSZ \in Nat  BY <1>1, <1>2, Sizes
<1>4. BufOf(o + PIPE_BSZ) = (q + 1) + 1 /\ OffOf(o + PIPE_BSZ) = r  BY <1>3, DivModIs
<1>. QED  BY <1>1, <1>4, DivMod

(* An offset in the first n buffers.                                       *)
LEMMA InBuffers ==
    ASSUME NEW o \in Nat, NEW n \in Nat, o < n * PIPE_BSZ
    PROVE  BufOf(o) \in 1 .. n
<1>1. PICK q \in Nat, r \in 0 .. PIPE_BSZ - 1 : q = BufOf(o) - 1 /\ r = OffOf(o) /\ o = q * PIPE_BSZ + r
  BY DivMod
<1>2. q * PIPE_BSZ \in Nat /\ n * PIPE_BSZ \in Nat  BY Sizes
<1>3. ~(n <= q)
  <2>. SUFFICES ASSUME n <= q PROVE FALSE
    OBVIOUS
  <2>1. CASE n = q  BY <1>1, <1>2, <2>1, Sizes
  <2>2. CASE n < q
    <3>1. n * PIPE_BSZ + PIPE_BSZ <= q * PIPE_BSZ  BY <2>2, Multiples
    <3>. QED  BY <1>1, <1>2, <3>1, Sizes
  <2>. QED  BY <2>1, <2>2
<1>4. BufOf(o) = q + 1  BY <1>1, DivMod
<1>. QED  BY <1>3, <1>4

(* An earlier offset is in an earlier buffer, or earlier in the same one.  *)
LEMMA Earlier ==
    ASSUME NEW o \in Nat, NEW w \in Nat, o < w
    PROVE  BufOf(o) # BufOf(w) \/ OffOf(o) < OffOf(w)
<1>1. PICK q \in Nat, r \in 0 .. PIPE_BSZ - 1 : q = BufOf(o) - 1 /\ r = OffOf(o) /\ o = q * PIPE_BSZ + r
  BY DivMod
<1>2. PICK t \in Nat, s \in 0 .. PIPE_BSZ - 1 : t = BufOf(w) - 1 /\ s = OffOf(w) /\ w = t * PIPE_BSZ + s
  BY DivMod
<1>3. q * PIPE_BSZ \in Nat /\ t * PIPE_BSZ \in Nat  BY Sizes
<1>4. BufOf(o) = q + 1 /\ BufOf(w) = t + 1  BY <1>1, <1>2, DivMod
<1>5. CASE q = t  BY <1>1, <1>2, <1>3, <1>5
<1>6. CASE q # t  BY <1>4, <1>6
<1>. QED  BY <1>5, <1>6

-----------------------------------------------------------------------------
(* Windows                                                                 *)

LEMMA FunctionSeq ==
    ASSUME NEW S, NEW n \in Nat, NEW s \in [1 .. n -> S]
    PROVE  s \in Seq(S) /\ Len(s) = n
OBVIOUS

LEMMA WindowSeq ==
    ASSUME NEW B, NEW r \in Nat, NEW n \in Nat
    PROVE  /\ Window(B, r, n) \in Seq({CellAt(B, r + k - 1) : k \in 1 .. n})
           /\ Len(Window(B, r, n)) = n
<1>. DEFINE S == {CellAt(B, r + k - 1) : k \in 1 .. n}
<1>1. Window(B, r, n) \in [1 .. n -> S]  BY DEF Window
<1>. HIDE DEF S
<1>2. Window(B, r, n) \in Seq(S) /\ Len(Window(B, r, n)) = n  BY <1>1, FunctionSeq
<1>. QED  BY <1>2 DEF S

LEMMA WindowEmpty ==
    ASSUME NEW B, NEW r
    PROVE  Window(B, r, 0) = << >>
BY DEF Window

(* What is left when the first i cells are gone.                           *)
WindowTail(B, r, n, i) == SubSeq(Window(B, r, n), i + 1, n)

LEMMA WindowRest ==
    ASSUME NEW B, NEW r \in Nat, NEW n \in Nat, NEW i \in 0 .. n
    PROVE  Window(B, r + i, n - i) = WindowTail(B, r, n, i)
<1>. DEFINE W == Window(B, r, n)
            V == Window(B, r + i, n - i)
            U == SubSeq(W, i + 1, n)
<1>1. \A k \in 1 .. n : W[k] = CellAt(B, r + k - 1)  BY DEF Window
<1>2. U = [k \in 1 .. n - i |-> W[i + k]]
  <2>1. W \in Seq({CellAt(B, r + k - 1) : k \in 1 .. n}) /\ Len(W) = n  BY WindowSeq
  <2>. HIDE DEF W
  <2>2. U = [k \in 1 .. n - (i + 1) + 1 |-> W[(i + 1) + k - 1]]  BY <2>1
  <2>3. n - (i + 1) + 1 = n - i  OBVIOUS
  <2>4. \A k \in 1 .. n - i : (i + 1) + k - 1 = i + k  OBVIOUS
  <2>. QED  BY <2>2, <2>3, <2>4
<1>3. \A k \in 1 .. n - i : W[i + k] = CellAt(B, r + i + k - 1)
  <2>. SUFFICES ASSUME NEW k \in 1 .. n - i PROVE W[i + k] = CellAt(B, r + i + k - 1)
    OBVIOUS
  <2>1. i + k \in 1 .. n /\ r + (i + k) - 1 = r + i + k - 1  OBVIOUS
  <2>. QED  BY <1>1, <2>1
<1>4. V = [k \in 1 .. n - i |-> CellAt(B, r + i + k - 1)]  BY DEF Window
<1>. HIDE DEF W, V, U
<1>. QED  BY <1>2, <1>3, <1>4 DEF V, U, W, WindowTail

(* m more cells.                                                           *)
WindowPair(B, r, n, m) == Window(B, r, n) \o Window(B, r + n, m)

LEMMA WindowMore ==
    ASSUME NEW B, NEW r \in Nat, NEW n \in Nat, NEW m \in Nat
    PROVE  Window(B, r, n + m) = WindowPair(B, r, n, m)
<1>. DEFINE W == Window(B, r, n)
            P == Window(B, r + n, m)
            V == Window(B, r, n + m)
            S == {CellAt(B, r + k - 1) : k \in 1 .. n + m}
<1>1. W = [k \in 1 .. n |-> CellAt(B, r + k - 1)]  BY DEF Window
<1>2. W \in Seq(S) /\ Len(W) = n
  <2>1. W \in [1 .. n -> S]  BY <1>1
  <2>. HIDE DEF W, S
  <2>. QED  BY <2>1, FunctionSeq
<1>3. P \in Seq(S) /\ Len(P) = m
  <2>1. \A k \in 1 .. m : CellAt(B, r + n + k - 1) \in S
    <3>. SUFFICES ASSUME NEW k \in 1 .. m PROVE CellAt(B, r + n + k - 1) \in S
      OBVIOUS
    <3>1. n + k \in 1 .. n + m /\ r + (n + k) - 1 = r + n + k - 1  OBVIOUS
    <3>. QED  BY <3>1
  <2>2. P \in [1 .. m -> S]  BY <2>1 DEF Window
  <2>. HIDE DEF S, P
  <2>. QED  BY <2>2, FunctionSeq
<1>4. V \in Seq(S) /\ Len(V) = n + m /\ \A k \in 1 .. n + m : V[k] = CellAt(B, r + k - 1)
  <2>1. n + m \in Nat  OBVIOUS
  <2>2. V \in Seq(S) /\ Len(V) = n + m  BY <2>1, WindowSeq
  <2>3. V = [k \in 1 .. n + m |-> CellAt(B, r + k - 1)]  BY DEF Window
  <2>. QED  BY <2>2, <2>3
<1>5. \A k \in 1 .. n : W[k] = CellAt(B, r + k - 1)  BY <1>1
<1>6. \A k \in 1 .. m : P[k] = CellAt(B, r + n + k - 1)  BY DEF Window
<1>. HIDE DEF W, V, S, P
<1>7. W \o P \in Seq(S) /\ Len(W \o P) = n + m  BY <1>2, <1>3, ConcatProperties
<1>8. ASSUME NEW k \in 1 .. n + m PROVE V[k] = (W \o P)[k]
  <2>1. CASE k <= n
    <3>1. k \in 1 .. n  BY <2>1
    <3>2. (W \o P)[k] = W[k]  BY <1>2, <1>3, <2>1, ConcatProperties
    <3>. QED  BY <1>4, <1>5, <3>1, <3>2
  <2>2. CASE k > n
    <3>1. k - n \in 1 .. m /\ r + n + (k - n) - 1 = r + k - 1  BY <2>2
    <3>2. (W \o P)[k] = P[k - n]
      <4>1. k \in 1 .. Len(W) + Len(P) /\ ~(k <= Len(W))  BY <1>2, <1>3, <2>2
      <4>2. (W \o P)[k] = P[k - Len(W)]  BY <1>2, <1>3, <4>1, ConcatProperties, Zenon
      <4>. QED  BY <1>2, <4>2
    <3>3. P[k - n] = CellAt(B, r + n + (k - n) - 1)  BY <1>6, <3>1
    <3>. QED  BY <1>4, <3>1, <3>2, <3>3
  <2>3. k <= n \/ k > n  OBVIOUS
  <2>. QED  BY <2>1, <2>2, <2>3
<1>9. V = W \o P  BY <1>4, <1>7, <1>8, SeqEqual
<1>. QED  BY <1>9 DEF W, V, P, WindowPair

-----------------------------------------------------------------------------
(* What the transfers do to the cells, where buffers have links of their   *)
(* own                                                                     *)

Given(p) == ocnt[p] - resid[p]
Written(p, k) == [w |-> p, n |-> ocnt[p], i |-> k]

(* uiomove writes the next i bytes of p's request and nothing before them. *)
LEMMA StoredCells ==
    ASSUME ~LinkInData, DataTypes, NEW p \in Proc, NEW f \in Node, NEW i \in Nat,
           resid[p] <= ocnt[p], i > 0,
           OffOf(wptr[f]) + i <= PIPE_BSZ, wptr[f] + i <= nbuf(f) * PIPE_BSZ,
           NEW C, C = Stored(p, f, i)[f]
    PROVE  /\ \A o \in Nat : o < wptr[f] => CellAt(C, o) = CellAt(buf[f], o)
           /\ \A j \in 0 .. i - 1 : CellAt(C, wptr[f] + j) = Written(p, Given(p) + j + 1)
<1>1. PICK w \in Nat, g \in Nat, n \in Nat : w = wptr[f] /\ g = Given(p) /\ n = nbuf(f)
  BY DEF DataTypes, Given, nbuf
<1>2. PICK b \in Nat, off \in 0 .. PIPE_BSZ - 1 : b = BufOf(w) /\ off = OffOf(w) /\ off + i <= PIPE_BSZ
  BY <1>1, DivMod
<1>3. PICK B : B = buf[f]  OBVIOUS
<1>. DEFINE put == [o \in 1 .. PIPE_BSZ |->
                       IF o \in off + 1 .. off + i
                       THEN [w |-> p, n |-> ocnt[p], i |-> g + o - off]
                       ELSE B[b][o]]
<1>4. C = [B EXCEPT ![b] = put]
  <2>1. Stored(p, f, i) = [buf EXCEPT ![f][b] = put]
    BY <1>1, <1>2, <1>3 DEF Stored, Reached, Given
  <2>. QED  BY <1>3, <2>1 DEF DataTypes
<1>5. b \in 1 .. n /\ b \in DOMAIN B
  <2>1. n * PIPE_BSZ \in Nat  BY Sizes
  <2>2. w < n * PIPE_BSZ  BY <1>1, <2>1
  <2>3. b \in 1 .. n  BY <1>2, <2>2, InBuffers
  <2>4. B \in Seq([1 .. PIPE_BSZ -> Cell]) /\ Len(B) = n  BY <1>1, <1>3 DEF DataTypes, nbuf
  <2>. QED  BY <2>3, <2>4
<1>6. C[b] = put /\ \A a \in Nat : a # b => C[a] = B[a]
  <2>1. B \in Seq([1 .. PIPE_BSZ -> Cell]) /\ Len(B) = n  BY <1>1, <1>3 DEF DataTypes, nbuf
  <2>. HIDE DEF put
  <2>. QED  BY <1>4, <1>5, <2>1
<1>7. ASSUME NEW o \in Nat, o < w PROVE CellAt(C, o) = CellAt(B, o)
  <2>1. BufOf(o) \in Nat /\ OffOf(o) \in 0 .. PIPE_BSZ - 1  BY DivMod
  <2>2. CASE BufOf(o) # b  BY <1>6, <2>1, <2>2 DEF CellAt
  <2>3. CASE BufOf(o) = b
    <3>1. OffOf(o) < off  BY <1>2, <1>7, <2>3, Earlier
    <3>2. OffOf(o) + 1 \in 1 .. PIPE_BSZ /\ OffOf(o) + 1 \notin off + 1 .. off + i
      BY <1>2, <2>1, <3>1, Sizes
    <3>3. put[OffOf(o) + 1] = B[b][OffOf(o) + 1]  BY <3>2
    <3>. QED  BY <1>6, <2>3, <3>3 DEF CellAt
  <2>. QED  BY <2>2, <2>3
<1>8. ASSUME NEW j \in 0 .. i - 1 PROVE CellAt(C, w + j) = Written(p, g + j + 1)
  <2>1. BufOf(w + j) = b /\ OffOf(w + j) = off + j  BY <1>2, SameBuffer, Sizes
  <2>2. off + j + 1 \in 1 .. PIPE_BSZ /\ off + j + 1 \in off + 1 .. off + i
        /\ g + (off + j + 1) - off = g + j + 1
    BY <1>2, Sizes
  <2>3. put[off + j + 1] = [w |-> p, n |-> ocnt[p], i |-> g + (off + j + 1) - off]  BY <2>2
  <2>. HIDE DEF put
  <2>. QED  BY <1>6, <2>1, <2>2, <2>3 DEF CellAt, Written
<1>. QED  BY <1>1, <1>3, <1>7, <1>8

(* A new buffer leaves the others alone.                                   *)
LEMMA GrownCells ==
    ASSUME ~LinkInData, DataTypes, NEW f \in Node, NEW o \in Nat, o < nbuf(f) * PIPE_BSZ
    PROVE  CellAt(Grown(f), o) = CellAt(buf[f], o)
<1>0. PICK B \in Seq([1 .. PIPE_BSZ -> Cell]) : B = buf[f] /\ Len(B) = nbuf(f)
  BY DEF DataTypes, nbuf
<1>1. PICK n \in Nat : B = buf[f] /\ n = nbuf(f) /\ n = Len(B)
  BY <1>0
<1>2. BufOf(o) \in 1 .. n  BY <1>1, InBuffers
<1>3. B # << >>  BY <1>1, <1>2
<1>4. [B EXCEPT ![n] = Linked(@)] = B  BY <1>1 DEF Linked
<1>5. Grown(f) = Append(B, Fresh)  BY <1>1, <1>3, <1>4 DEF Grown
<1>6. Append(B, Fresh)[BufOf(o)] = B[BufOf(o)]  BY <1>1, <1>2
<1>. QED  BY <1>1, <1>5, <1>6 DEF CellAt

(* Without the first buffer, every cell is found PIPE_BSZ earlier.         *)
LEMMA TailCells ==
    ASSUME NEW S, NEW B \in Seq(S), NEW o \in Nat, o + PIPE_BSZ < Len(B) * PIPE_BSZ
    PROVE  CellAt(Tail(B), o) = CellAt(B, o + PIPE_BSZ)
<1>1. BufOf(o + PIPE_BSZ) = BufOf(o) + 1 /\ OffOf(o + PIPE_BSZ) = OffOf(o)  BY NextBuffer
<1>2. BufOf(o) + 1 \in 1 .. Len(B) /\ BufOf(o) \in Nat /\ BufOf(o) >= 1
  BY <1>1, InBuffers, DivMod, Sizes
<1>3. Tail(B)[BufOf(o)] = B[BufOf(o) + 1]
  BY <1>2, HeadTailProperties
<1>. QED  BY <1>1, <1>3 DEF CellAt

-----------------------------------------------------------------------------
(* The invariant                                                           *)

(* Whoever has the lock of a fifo is in a transfer on it.                  *)
Owned ==
    \A p \in Proc, f \in Node :
        lock[f] = p => pc[p] \in Holders \cup {"wtop"} /\ fd[p].f = f

(* A write of at most PIPE_BUF bytes is one piece.                         *)
Whole(p) ==
    pc[p] \in WriteCall /\ ocnt[p] <= PIPE_BUF =>
        /\ pc[p] # "wcopy" => resid[p] = ocnt[p]
        /\ pc[p] \in {"walloc", "kmem", "wcopy"} => count[p] = resid[p]

(* What is in of a small write are the last bytes of the fifo.             *)
Laid(p) ==
    pc[p] = "wcopy" /\ ocnt[p] <= PIPE_BUF =>
        /\ Given(p) <= size[fd[p].f]
        /\ \A k \in 1 .. Given(p) :
              CellAt(buf[fd[p].f], wptr[fd[p].f] - Given(p) + k - 1) = Written(p, k)

StreamInv == Owned /\ \A p \in Proc : Whole(p) /\ Laid(p)

LEMMA StreamInit == Init => StreamInv
BY FifoConstants DEF Init, StreamInv, Owned, Whole, Laid, WriteCall

(* Nothing but p's own state and what it holds changes.                    *)
OnlyMoves(p) ==
    \A q \in Proc \ {p} : /\ pc'[q] = pc[q] /\ fd'[q] = fd[q] /\ ocnt'[q] = ocnt[q]
                          /\ resid'[q] = resid[q] /\ count'[q] = count[q]
OthersHeld(p) ==
    \A q \in Proc \ {p} : pc[q] \in Holders =>
        /\ size'[fd[q].f] = size[fd[q].f] /\ wptr'[fd[q].f] = wptr[fd[q].f]
        /\ buf'[fd[q].f] = buf[fd[q].f]
LockMoves(p) ==
    \A f \in Node : /\ lock'[f] \in {lock[f], NoProc, p}
                    /\ lock'[f] = p => pc'[p] \in Holders \cup {"wtop"} /\ fd'[p].f = f

LEMMA StreamKept ==
    ASSUME StreamInv, NEW p \in Proc, OnlyMoves(p), OthersHeld(p), LockMoves(p), Whole(p)', Laid(p)'
    PROVE  StreamInv'
<1>1. Owned'
  <2>. SUFFICES ASSUME NEW q \in Proc, NEW f \in Node, lock'[f] = q
                PROVE  pc'[q] \in Holders \cup {"wtop"} /\ fd'[q].f = f
    BY DEF Owned, Holders
  <2>1. CASE q = p  BY <2>1 DEF LockMoves
  <2>2. CASE q # p
    <3>1. lock[f] = q  BY <2>2, FifoConstants DEF LockMoves
    <3>. QED  BY <2>2, <3>1 DEF StreamInv, Owned, OnlyMoves
  <2>. QED  BY <2>1, <2>2
<1>2. ASSUME NEW q \in Proc PROVE Whole(q)' /\ Laid(q)'
  <2>1. CASE q = p  BY <2>1
  <2>2. CASE q # p
    <3>1. Whole(q) /\ Laid(q)  BY DEF StreamInv
    <3>2. /\ pc'[q] = pc[q] /\ fd'[q] = fd[q] /\ ocnt'[q] = ocnt[q]
          /\ resid'[q] = resid[q] /\ count'[q] = count[q]
      BY <2>2 DEF OnlyMoves
    <3>3. Whole(q)'  BY <3>1, <3>2 DEF Whole
    <3>4. Laid(q)'
      <4>1. CASE pc[q] # "wcopy"  BY <3>2, <4>1 DEF Laid
      <4>2. CASE pc[q] = "wcopy"
        <5>1. /\ size'[fd[q].f] = size[fd[q].f] /\ wptr'[fd[q].f] = wptr[fd[q].f]
              /\ buf'[fd[q].f] = buf[fd[q].f]
          BY <2>2, <4>2 DEF OthersHeld, Holders
        <5>. QED  BY <3>1, <3>2, <5>1 DEF Laid, Given, Written
      <4>. QED  BY <4>1, <4>2
    <3>. QED  BY <3>3, <3>4
  <2>. QED  BY <2>1, <2>2
<1>. QED  BY <1>1, <1>2 DEF StreamInv

(* What p has put into f unseen, and what it has handed over of a large    *)
(* write to f.                                                             *)
Hid(p, f) == IF pc[p] = "wcopy" /\ fd[p].f = f /\ ocnt[p] <= PIPE_BUF THEN Given(p) ELSE 0
Hand(p, f) ==
    IF Writing(p, f) /\ resid[p] < ocnt[p] /\ ocnt[p] > PIPE_BUF THEN <<ocnt[p], Given(p)>> ELSE <<0, 0>>
Quiet(p) == \A f \in Node : Hid(p, f)' = Hid(p, f) /\ Hand(p, f)' = Hand(p, f)

LEMMA QuietOthers ==
    ASSUME NEW p \in Proc, OnlyMoves(p)
    PROVE  \A q \in Proc \ {p} : Quiet(q)
BY DEF OnlyMoves, Quiet, Hid, Hand, Given, Writing

(* Outside of write nothing is hidden or handed over.                      *)
LEMMA NotWriting ==
    ASSUME NEW p \in Proc
    PROVE  /\ pc[p] \notin WriteCall => \A f : Hid(p, f) = 0 /\ Hand(p, f) = <<0, 0>>
           /\ pc'[p] \notin WriteCall => \A f \in Node : Hid(p, f)' = 0 /\ Hand(p, f)' = <<0, 0>>
           /\ pc'[p] \notin WriteCall => Whole(p)' /\ Laid(p)'
BY DEF Hid, Hand, Writing, WriteCall, Whole, Laid

(* A step of p outside of write, that moves no data and keeps the lock     *)
(* rules.                                                                  *)
LEMMA OutsideStream ==
    ASSUME StreamInv, NEW p \in Proc, OnlyMoves(p), LockMoves(p), UNCHANGED <<buf, wptr, size>>,
           pc[p] \notin WriteCall, pc'[p] \notin WriteCall
    PROVE  StreamInv' /\ Quiet(p)
<1>1. OthersHeld(p)  BY DEF OthersHeld
<1>2. Whole(p)' /\ Laid(p)' /\ Quiet(p)  BY NotWriting DEF Quiet
<1>. QED  BY <1>1, <1>2, StreamKept

LEMMA Unowned ==
    ASSUME StreamInv, NEW p \in Proc, pc[p] \notin Holders \cup {"wtop"}
    PROVE  \A f \in Node : lock[f] # p
BY DEF StreamInv, Owned

-----------------------------------------------------------------------------
(* Steps that move no byte                                                 *)

(* A step to another place, with the same request.                         *)
LEMMA GotoMoves ==
    ASSUME CallInv, NEW p \in Proc, NEW l \in Label,
           \E c \in Chan \cup {NoChan} : \E C, Q : Goto(p, l, c, C, Q),
           \A q \in Proc \ {p} : /\ fd'[q] = fd[q] /\ ocnt'[q] = ocnt[q]
                                 /\ resid'[q] = resid[q] /\ count'[q] = count[q]
    PROVE  OnlyMoves(p) /\ pc'[p] = l
BY GotoAny DEF CallInv, OnlyMoves

LEMMA OpenStream ==
    ASSUME CallInv, StreamInv, NEW p \in Proc,
           \/ \E f \in Node, m \in Modes[p] : fifo_open(p, f, m)
           \/ OpenAgain(p) \/ SelectEnds(p) \/ \E k \in Selects : select(p, k)
    PROVE  StreamInv' /\ Quiet(p) /\ OnlyMoves(p) /\ UNCHANGED <<buf, rptr, wptr, size>>
<1>. USE LabelFacts, ChanFacts
<1>. DEFINE L == {"user", "oread", "owrite"} \cup Kind
<1>1. pc[p] \in L
  <2>1. Selects \subseteq Kind  BY FifoConstants
  <2>. QED  BY <2>1 DEF fifo_open, OpenAgain, SelectEnds, select, Awake
<1>2. /\ UNCHANGED <<ocnt, resid, count, lock, buf, rptr, wptr, size>>
      /\ \A q \in Proc \ {p} : fd'[q] = fd[q]
  BY DEF fifo_open, OpenAgain, SelectEnds, select, callvars, datavars, CallInv, CallTypes
<1>3. \E l \in L : \E c \in Chan \cup {NoChan} : \E C, Q : Goto(p, l, c, C, Q)
  <2>1. CASE SelectEnds(p)  BY <2>1 DEF SelectEnds
  <2>2. CASE \E k \in Selects : select(p, k)
    <3>1. PICK k \in Kind : select(p, k)  BY <2>2, FifoConstants
    <3>. QED  BY <3>1 DEF select
  <2>3. ASSUME NEW d, d.f \in Node, NEW rc, NEW wc, NEW C, OpenWaits(p, d, rc, wc, C)
        PROVE  \E l \in L : \E c \in Chan \cup {NoChan} : \E D, Q : Goto(p, l, c, D, Q)
    BY <2>3 DEF OpenWaits
  <2>4. CASE OpenAgain(p)
    <3>1. fd[p].f \in Node  BY <2>4, FdOfCaller DEF CallInv, OpenAgain, Awake
    <3>. QED  BY <2>3, <2>4, <3>1 DEF OpenAgain
  <2>5. ASSUME NEW f \in Node, NEW m \in Modes[p], fifo_open(p, f, m)
        PROVE  \E l \in L : \E c \in Chan \cup {NoChan} : \E D, Q : Goto(p, l, c, D, Q)
    <3>1. [f |-> f, r |-> m.r, w |-> m.w, nd |-> m.nd].f \in Node  OBVIOUS
    <3>. QED  BY <2>3, <2>5, <3>1 DEF fifo_open
  <2>. QED  BY <2>1, <2>2, <2>4, <2>5
<1>4. L \subseteq Label /\ L \cap (WriteCall \cup Holders \cup {"wtop"}) = {}
  BY DEF Kind, WriteCall, Holders, Label, Sleepers
<1>5. OnlyMoves(p) /\ pc'[p] \in L
  <2>1. PICK l \in L : \E c \in Chan \cup {NoChan} : \E C, Q : Goto(p, l, c, C, Q)  BY <1>3
  <2>2. l \in Label  BY <1>4
  <2>. QED  BY <1>2, <2>1, <2>2, GotoMoves
<1>. HIDE DEF L
<1>6. LockMoves(p)
  BY <1>1, <1>2, <1>4, Unowned DEF LockMoves
<1>. QED  BY <1>1, <1>2, <1>4, <1>5, <1>6, OutsideStream

LEMMA EntryStream ==
    ASSUME CallInv, DataInv, StreamInv, NEW p \in Proc,
           \/ \E n \in WriteSizes : Write(p, n)
           \/ \E n \in ReadSizes : Read(p, n)
    PROVE  StreamInv' /\ Quiet(p) /\ OnlyMoves(p)
<1>1. PICK n \in Nat, l \in {"wtop", "rtop"} :
         /\ pc' = [pc EXCEPT ![p] = l]
         /\ ocnt' = [ocnt EXCEPT ![p] = n] /\ resid' = [resid EXCEPT ![p] = n]
  BY Sizes DEF Write, Read
<1>2. pc[p] = "user" /\ UNCHANGED <<fd, count, lock, buf, rptr, wptr, size>>
  BY DEF Write, Read, datavars
<1>3. OnlyMoves(p) /\ pc'[p] = l /\ ocnt'[p] = n /\ resid'[p] = n
  BY <1>1, <1>2 DEF OnlyMoves, CallInv, CallTypes, DataInv, DataTypes
<1>4. LockMoves(p) /\ OthersHeld(p)
  <2>1. \A f \in Node : lock[f] # p  BY <1>2, Unowned DEF Holders
  <2>. QED  BY <1>2, <2>1 DEF LockMoves, OthersHeld
<1>5. Whole(p)' /\ Laid(p)'  BY <1>3 DEF Whole, Laid
<1>6. Quiet(p)
  BY <1>2, <1>3, NotWriting DEF Quiet, WriteCall, Hid, Hand
<1>. QED  BY <1>3, <1>4, <1>5, <1>6, StreamKept

(* The steps of read that move no byte, but for the end of the call.       *)
LEMMA ReadStream ==
    ASSUME CallInv, DataInv, StreamInv, NEW p \in Proc, ReadSleeps(p) \/ ReadStarts(p)
    PROVE  StreamInv' /\ Quiet(p) /\ OnlyMoves(p)
<1>. USE LabelFacts, ChanFacts
<1>1. pc[p] \in {"rtop", "rsleep"}  BY DEF ReadSleeps, ReadStarts, AtReadTop, Awake
<1>2. PICK f \in Node : f = fd[p].f  BY <1>1, FdOfCaller DEF CallInv
<1>3. \A g \in Node : lock[g] # p  BY <1>1, Unowned DEF Holders
<1>4. UNCHANGED <<fd, ocnt, resid, buf, wptr, size>> /\ \A q \in Proc \ {p} : count'[q] = count[q]
  BY DEF ReadSleeps, ReadStarts, callvars, datavars, DataInv, DataTypes
<1>5. CASE ReadSleeps(p)
  <2>1. Goto(p, "rsleep", <<f, "fn_rcnt">>, {}, {}) /\ Unlock(f)
    BY <1>2, <1>5 DEF ReadSleeps
  <2>2. OnlyMoves(p) /\ pc'[p] = "rsleep"  BY <1>4, <2>1, GotoMoves
  <2>3. LockMoves(p)  BY <1>2, <1>3, <2>1, FifoConstants DEF LockMoves, Unlock, CallInv, CallTypes
  <2>. QED  BY <1>1, <1>4, <2>2, <2>3, OutsideStream DEF WriteCall
<1>6. CASE ReadStarts(p)
  <2>1. Goto(p, "rcopy", NoChan, {}, {}) /\ Lock(f, p)
    BY <1>2, <1>6 DEF ReadStarts
  <2>2. OnlyMoves(p) /\ pc'[p] = "rcopy"  BY <1>4, <2>1, GotoMoves
  <2>3. LockMoves(p)  BY <1>2, <1>3, <1>4, <2>1, <2>2 DEF LockMoves, Lock, CallInv, CallTypes, Holders
  <2>. QED  BY <1>1, <1>4, <2>2, <2>3, OutsideStream DEF WriteCall
<1>. QED  BY <1>5, <1>6

(* Within a write that transfers nothing.                                  *)
LEMMA WithinWrite ==
    ASSUME CallInv, DataInv, StreamInv, NEW p \in Proc,
           pc[p] \in WriteCall \ {"wcopy"}, pc'[p] \in WriteCall,
           OnlyMoves(p), OthersHeld(p), LockMoves(p), UNCHANGED <<fd, ocnt, resid, size>>,
           ocnt[p] <= PIPE_BUF /\ pc'[p] \in {"walloc", "kmem", "wcopy"} => count'[p] = resid[p]
    PROVE  StreamInv' /\ Quiet(p)
<1>1. ocnt[p] <= PIPE_BUF => resid[p] = ocnt[p] /\ Given(p) = 0 /\ Given(p)' = 0
  BY DEF StreamInv, Whole, Given, DataInv, DataTypes
<1>2. Quiet(p)  BY <1>1 DEF Quiet, Hid, Hand, Writing, Given
<1>3. Whole(p)'  BY <1>1 DEF Whole
<1>4. Laid(p)'
  <2>1. CASE pc'[p] = "wcopy" /\ ocnt[p] <= PIPE_BUF
    <3>1. Given(p)' = 0  BY <1>1, <2>1
    <3>2. 0 <= size'[fd'[p].f]
      <4>1. fd[p].f \in Node  BY FdOfCaller DEF CallInv, WriteCall
      <4>. QED  BY <4>1 DEF DataInv, DataTypes
    <3>. QED  BY <3>1, <3>2 DEF Laid
  <2>2. CASE ~(pc'[p] = "wcopy" /\ ocnt[p] <= PIPE_BUF)
    BY <2>2 DEF Laid
  <2>. QED  BY <2>1, <2>2
<1>. QED  BY <1>2, <1>3, <1>4, StreamKept

LEMMA WriteStream ==
    ASSUME CallInv, DataInv, StreamInv, NEW p \in Proc,
           WriteSleeps(p) \/ WriteStarts(p) \/ AllocSleeps(p) \/ AllocReserves(p) \/ WriteCopies(p)
    PROVE  StreamInv' /\ Quiet(p) /\ OnlyMoves(p)
<1>. USE LabelFacts, ChanFacts
<1>1. pc[p] \in WriteCall \ {"wcopy"}
  BY DEF WriteSleeps, WriteStarts, AllocSleeps, AllocReserves, WriteCopies, AtWriteTop, Awake, WriteCall
<1>2. PICK f \in Node : f = fd[p].f  BY <1>1, FdOfCaller DEF CallInv, WriteCall
<1>3. /\ UNCHANGED <<fd, ocnt, resid, buf, wptr, size>>
      /\ \A q \in Proc \ {p} : count'[q] = count[q]
  BY DEF WriteSleeps, WriteStarts, AllocSleeps, AllocReserves, WriteCopies, callvars, datavars,
         DataInv, DataTypes
<1>4. OthersHeld(p)  BY <1>3 DEF OthersHeld
<1>5. \A g \in Node : lock[g] = p => g = f  BY <1>2 DEF StreamInv, Owned
<1>6. /\ resid[p] \in Nat /\ ocnt[p] \in Nat /\ size[f] \in Nat /\ PIPE_BUF \in Nat
      /\ ocnt[p] <= PIPE_BUF => resid[p] = ocnt[p]
      /\ ocnt[p] <= PIPE_BUF /\ pc[p] \in {"walloc", "kmem", "wcopy"} => count[p] = resid[p]
  BY <1>1, Sizes DEF DataInv, DataTypes, StreamInv, Whole
<1>7. lock \in [Node -> Proc \cup {NoProc}]  BY DEF CallInv, CallTypes
<1>8. CASE WriteSleeps(p) \/ AllocSleeps(p)
  <2>1. \E c \in Chan : Goto(p, "wsleep", c, {}, {})
    BY <1>2, <1>8 DEF WriteSleeps, AllocSleeps
  <2>2. Unlock(f)  BY <1>2, <1>8 DEF WriteSleeps, AllocSleeps
  <2>3. OnlyMoves(p) /\ pc'[p] = "wsleep"  BY <1>3, <2>1, GotoMoves
  <2>4. LockMoves(p)  BY <1>5, <1>7, <2>2, FifoConstants DEF LockMoves, Unlock
  <2>5. "wsleep" \in WriteCall  BY DEF WriteCall
  <2>. QED  BY <1>1, <1>3, <1>4, <2>3, <2>4, <2>5, WithinWrite
<1>9. CASE WriteStarts(p)
  <2>1. Goto(p, "walloc", NoChan, {}, {}) /\ Lock(f, p) /\ count' = [count EXCEPT ![p] = WriteNow(p)]
        /\ WriteNow(p) # 0
    BY <1>2, <1>9 DEF WriteStarts
  <2>2. OnlyMoves(p) /\ pc'[p] = "walloc"  BY <1>3, <2>1, GotoMoves
  <2>3. LockMoves(p)  BY <1>2, <1>3, <1>5, <1>7, <2>1, <2>2 DEF LockMoves, Lock, Holders
  <2>4. count'[p] = WriteNow(p)  BY <2>1 DEF DataInv, DataTypes
  <2>5. ocnt[p] <= PIPE_BUF => WriteNow(p) = resid[p]
    BY <1>2, <1>6, <2>1 DEF WriteNow, Fits
  <2>6. "walloc" \in WriteCall  BY DEF WriteCall
  <2>. QED  BY <1>1, <1>3, <1>4, <2>2, <2>3, <2>4, <2>5, <2>6, WithinWrite
<1>10. CASE AllocReserves(p) \/ WriteCopies(p)
  <2>1. PICK l \in {"kmem", "wcopy"} : Goto(p, l, NoChan, {}, {})
    BY <1>10 DEF AllocReserves, WriteCopies
  <2>2. UNCHANGED <<lock, count>> /\ pc[p] = "walloc"
    BY <1>10 DEF AllocReserves, WriteCopies, callvars
  <2>3. OnlyMoves(p) /\ pc'[p] = l  BY <1>3, <2>1, GotoMoves
  <2>4. LockMoves(p)  BY <1>2, <1>3, <1>5, <2>2, <2>3 DEF LockMoves, Holders
  <2>5. l \in WriteCall  BY DEF WriteCall
  <2>. QED  BY <1>1, <1>3, <1>4, <1>6, <2>2, <2>3, <2>4, <2>5, WithinWrite
<1>. QED  BY <1>8, <1>9, <1>10

(* kmem_alloc's buffer comes.                                              *)
LEMMA BufallocStream ==
    ASSUME CallInv, DataInv, StreamInv, NEW p \in Proc, fifo_bufalloc(p)
    PROVE  StreamInv' /\ Quiet(p) /\ OnlyMoves(p)
<1>. USE LabelFacts
<1>1. pc[p] = "kmem" /\ pc[p] \in Holders  BY DEF fifo_bufalloc, Holders
<1>2. PICK f \in Node : f = fd[p].f  BY <1>1, FdOfCaller DEF CallInv
<1>3. UNCHANGED <<fd, ocnt, resid, count, lock, rptr, wptr, size>>
  BY DEF fifo_bufalloc, callvars
<1>4. \A g \in Node \ {f} : buf'[g] = buf[g]  BY <1>2, GrownByOne DEF DataInv
<1>5. OthersHeld(p)
  <2>1. \A q \in Proc \ {p} : pc[q] \in Holders => fd[q].f \in Node /\ fd[q].f # f
    BY <1>1, <1>2, HeldAlone
  <2>. QED  BY <1>3, <1>4, <2>1 DEF OthersHeld
<1>6. OnlyMoves(p) /\ pc'[p] = "walloc"  BY <1>3, GotoMoves DEF fifo_bufalloc
<1>7. LockMoves(p)  BY <1>3, <1>6 DEF LockMoves, Holders, StreamInv, Owned
<1>8. ocnt[p] <= PIPE_BUF => count[p] = resid[p]  BY <1>1 DEF StreamInv, Whole, WriteCall
<1>9. "walloc" \in WriteCall /\ "kmem" \in WriteCall \ {"wcopy"}  BY DEF WriteCall
<1>. QED  BY <1>1, <1>3, <1>5, <1>6, <1>7, <1>8, <1>9, WithinWrite

(* A call that returns.                                                    *)
LEMMA ReturnStream ==
    ASSUME CallInv, DataInv, StreamInv, NEW p \in Proc,
           WriteFails(p) \/ ReadEnds(p) \/ TransferInterrupted(p) \/ CopyFaults(p)
    PROVE  /\ StreamInv' /\ OnlyMoves(p) /\ pc'[p] = "user"
           /\ UNCHANGED <<fd, rcnt, wcnt, buf, rptr, wptr, size>>
<1>. USE LabelFacts
<1>1. /\ Goto(p, "user", NoChan, {}, {}) /\ EndCall(p)
      /\ UNCHANGED <<fd, rcnt, wcnt, buf, rptr, wptr, size>>
  BY DEF WriteFails, ReadEnds, TransferInterrupted, CopyFaults, datavars
<1>2. \A q \in Proc \ {p} : ocnt'[q] = ocnt[q] /\ resid'[q] = resid[q] /\ count'[q] = count[q]
  BY <1>1, EndCallTypes DEF DataInv
<1>3. OnlyMoves(p) /\ pc'[p] = "user"  BY <1>1, <1>2, GotoMoves
<1>4. LockMoves(p)  BY <1>1, FifoConstants DEF EndCall, LockMoves
<1>5. Whole(p)' /\ Laid(p)'  BY <1>3, NotWriting DEF WriteCall
<1>6. OthersHeld(p)  BY <1>1 DEF OthersHeld
<1>. QED  BY <1>1, <1>3, <1>4, <1>5, <1>6, StreamKept

-----------------------------------------------------------------------------
(* Closing and copying                                                     *)

LEMMA CloseStream ==
    ASSUME CallInv, DataInv, StreamInv, NEW p \in Proc, fd[p] # NoFd,
           pc[p] \in {"user", "oread", "owrite"}, CloseEnds(p)
    PROVE  StreamInv' /\ Quiet(p) /\ OnlyMoves(p)
<1>. USE LabelFacts
<1>1. PICK f \in Node : f = fd[p].f  BY FdFields DEF CallInv, CallTypes
<1>2. /\ UNCHANGED <<ocnt, resid, count, lock>> /\ \A q \in Proc \ {p} : fd'[q] = fd[q]
      /\ \E C, Q : Goto(p, "user", NoChan, C, Q)
  BY DEF CloseEnds, callvars, CallInv, CallTypes
<1>3. OnlyMoves(p) /\ pc'[p] = "user"  BY <1>2, GotoMoves
<1>4. LockMoves(p)
  <2>1. \A g \in Node : lock[g] # p  BY Unowned DEF Holders
  <2>. QED  BY <1>2, <2>1 DEF LockMoves
<1>5. OthersHeld(p)
  <2>1. CASE ~(rcnt[f] - Ends(fd[p].r) = 0 /\ wcnt[f] - Ends(fd[p].w) = 0)
    <3>1. UNCHANGED <<buf, wptr, size>>  BY <1>1, <2>1 DEF CloseEnds, datavars
    <3>. QED  BY <3>1 DEF OthersHeld
  <2>2. CASE rcnt[f] - Ends(fd[p].r) = 0 /\ wcnt[f] - Ends(fd[p].w) = 0
    <3>1. \A q \in Proc \ {p} : fd[q] # NoFd => fd[q].f # f
      BY <1>1, <2>2, LastClose
    <3>2. \A q \in Proc \ {p} : pc[q] \in Holders => fd[q].f # f /\ fd[q].f \in Node
      BY <3>1, FdFields DEF CallInv, CallTypes, DescInv, Holders
    <3>3. \A g \in Node \ {f} : size'[g] = size[g] /\ wptr'[g] = wptr[g] /\ buf'[g] = buf[g]
      BY <1>1, <2>2 DEF CloseEnds, DataInv, DataTypes
    <3>. QED  BY <3>2, <3>3 DEF OthersHeld
  <2>. QED  BY <2>1, <2>2
<1>6. Whole(p)' /\ Laid(p)' /\ Quiet(p)  BY <1>3, NotWriting DEF WriteCall, Quiet
<1>. QED  BY <1>3, <1>4, <1>5, <1>6, StreamKept

(* What CopyIn does, for the fifo f and the chunk of i bytes.              *)
CopiedIn(p, f, i) ==
    /\ f = fd[p].f /\ i > 0 /\ i <= count[p] /\ count[p] <= resid[p] /\ resid[p] <= ocnt[p]
    /\ size[f] + count[p] <= PIPE_BUF /\ ocnt[p] \in WriteSizes
    /\ size'[f] = size[f] + i /\ wptr'[f] = wptr[f] + i /\ rptr'[f] = rptr[f]
    /\ \A g \in Node \ {f} : /\ buf'[g] = buf[g] /\ rptr'[g] = rptr[g]
                             /\ wptr'[g] = wptr[g] /\ size'[g] = size[g]
    /\ \A o \in Nat : o < wptr[f] => CellAt(buf'[f], o) = CellAt(buf[f], o)
    /\ \A j \in 0 .. i - 1 : CellAt(buf'[f], wptr[f] + j) = Written(p, Given(p) + j + 1)
    /\ UNCHANGED <<fd, rcnt, wcnt>>
    /\ OnlyMoves(p) /\ OthersHeld(p) /\ LockMoves(p)
    /\ \/ /\ count[p] > i /\ pc'[p] = "wcopy" /\ ocnt'[p] = ocnt[p]
          /\ count'[p] = count[p] - i /\ resid'[p] = resid[p] - i
       \/ /\ count[p] = i /\ resid[p] > i /\ pc'[p] = "wtop" /\ ocnt'[p] = ocnt[p]
          /\ resid'[p] = resid[p] - i
       \/ count[p] = i /\ resid[p] = i /\ pc'[p] = "user"

LEMMA CopyInFacts ==
    ASSUME ~LinkInData, CallInv, DataInv, StreamInv, NEW p \in Proc, CopyIn(p)
    PROVE  \E f \in Node, i \in Nat : CopiedIn(p, f, i)
<1>. USE LabelFacts
<1>1. pc[p] = "wcopy" /\ pc[p] \in Holders /\ pc[p] \in WriteCall /\ pc[p] # "user"
  BY DEF CopyIn, Holders, WriteCall
<1>2. PICK f \in Node : f = fd[p].f  BY <1>1, FdOfCaller DEF CallInv
<1>3. /\ count[p] \in Nat /\ resid[p] \in Nat /\ ocnt[p] \in WriteSizes /\ resid[p] <= ocnt[p]
      /\ count[p] > 0 /\ count[p] <= resid[p] /\ size[f] + count[p] <= PIPE_BUF
      /\ wptr[f] + count[p] <= nbuf(f) * PIPE_BSZ
      /\ wptr[f] \in Nat /\ rptr[f] \in Nat /\ size[f] \in Nat /\ ocnt[p] \in Nat
  BY <1>1, <1>2 DEF DataInv, DataTypes, Transfer, Pointers
<1>4. PICK i \in Nat : /\ i = Chunk(p, wptr[f]) /\ i > 0 /\ i <= count[p]
                       /\ OffOf(wptr[f]) + i <= PIPE_BSZ
  BY <1>3, ChunkFacts
<1>5. /\ buf' = Stored(p, f, i) /\ size' = [size EXCEPT ![f] = @ + i]
      /\ wptr' = [wptr EXCEPT ![f] = @ + i] /\ UNCHANGED <<fd, rptr, rcnt, wcnt>>
  BY <1>2, <1>4 DEF CopyIn
<1>6. \A g \in Node \ {f} : buf'[g] = buf[g]
  BY <1>3, <1>5, StoredTypes DEF DataInv, nbuf
<1>7. /\ size'[f] = size[f] + i /\ wptr'[f] = wptr[f] + i /\ rptr'[f] = rptr[f]
      /\ \A g \in Node \ {f} : size'[g] = size[g] /\ wptr'[g] = wptr[g] /\ rptr'[g] = rptr[g]
  BY <1>5 DEF DataInv, DataTypes
<1>8. /\ \A o \in Nat : o < wptr[f] => CellAt(buf'[f], o) = CellAt(buf[f], o)
      /\ \A j \in 0 .. i - 1 : CellAt(buf'[f], wptr[f] + j) = Written(p, Given(p) + j + 1)
  <2>1. nbuf(f) * PIPE_BSZ \in Nat  BY OneMoreBuffer DEF DataInv, DataTypes, nbuf
  <2>2. wptr[f] + i <= nbuf(f) * PIPE_BSZ  BY <1>3, <1>4, <2>1
  <2>3. PICK C : C = Stored(p, f, i)[f]  OBVIOUS
  <2>4. /\ \A o \in Nat : o < wptr[f] => CellAt(C, o) = CellAt(buf[f], o)
        /\ \A j \in 0 .. i - 1 : CellAt(C, wptr[f] + j) = Written(p, Given(p) + j + 1)
    BY <1>3, <1>4, <2>2, <2>3, StoredCells DEF DataInv
  <2>. QED  BY <1>5, <2>3, <2>4
<1>9. OthersHeld(p)
  <2>1. \A q \in Proc \ {p} : pc[q] \in Holders => fd[q].f \in Node /\ fd[q].f # f
    BY <1>1, <1>2, HeldAlone
  <2>. QED  BY <1>6, <1>7, <2>1 DEF OthersHeld
<1>10. \A g \in Node : lock[g] = p => fd'[p].f = g  BY <1>5 DEF StreamInv, Owned
<1>11. /\ OnlyMoves(p) /\ LockMoves(p)
       /\ \/ /\ count[p] > i /\ pc'[p] = "wcopy" /\ ocnt'[p] = ocnt[p]
             /\ count'[p] = count[p] - i /\ resid'[p] = resid[p] - i
          \/ /\ count[p] = i /\ resid[p] > i /\ pc'[p] = "wtop" /\ ocnt'[p] = ocnt[p]
             /\ resid'[p] = resid[p] - i
          \/ count[p] = i /\ resid[p] = i /\ pc'[p] = "user"
  <2>1. CASE count[p] > i
    <3>1. /\ count' = [count EXCEPT ![p] = @ - i] /\ resid' = [resid EXCEPT ![p] = @ - i]
          /\ UNCHANGED <<pc, ocnt, lock>>
      BY <1>2, <1>4, <2>1 DEF CopyIn
    <3>2. OnlyMoves(p)  BY <1>5, <3>1 DEF OnlyMoves, DataInv, DataTypes
    <3>3. LockMoves(p)  BY <1>1, <1>10, <3>1 DEF LockMoves
    <3>4. count'[p] = count[p] - i /\ resid'[p] = resid[p] - i
      BY <3>1 DEF DataInv, DataTypes
    <3>. QED  BY <1>1, <2>1, <3>1, <3>2, <3>3, <3>4
  <2>2. CASE ~(count[p] > i) /\ resid[p] > i
    <3>1. /\ count' = [count EXCEPT ![p] = 0] /\ resid' = [resid EXCEPT ![p] = @ - i]
          /\ UNCHANGED <<ocnt, lock>> /\ \E C, Q : Goto(p, "wtop", NoChan, C, Q)
      BY <1>2, <1>4, <2>2 DEF CopyIn
    <3>2. OnlyMoves(p) /\ pc'[p] = "wtop"
      BY <1>5, <3>1, GotoMoves DEF DataInv, DataTypes
    <3>3. LockMoves(p)  BY <1>10, <3>1, <3>2 DEF LockMoves
    <3>4. resid'[p] = resid[p] - i /\ count[p] = i
      BY <1>3, <1>4, <2>2, <3>1 DEF DataInv, DataTypes
    <3>. QED  BY <2>2, <3>1, <3>2, <3>3, <3>4
  <2>3. CASE ~(count[p] > i) /\ ~(resid[p] > i)
    <3>1. EndCall(p) /\ \E C, Q : Goto(p, "user", NoChan, C, Q)
      BY <1>2, <1>4, <2>3 DEF CopyIn
    <3>2. \A q \in Proc \ {p} : ocnt'[q] = ocnt[q] /\ resid'[q] = resid[q] /\ count'[q] = count[q]
      BY <3>1, EndCallTypes DEF DataInv
    <3>3. OnlyMoves(p) /\ pc'[p] = "user"  BY <1>5, <3>1, <3>2, GotoMoves
    <3>4. LockMoves(p)  BY <3>1, FifoConstants DEF EndCall, LockMoves
    <3>5. count[p] = i /\ resid[p] = i  BY <1>3, <1>4, <2>3
    <3>. QED  BY <3>3, <3>4, <3>5
  <2>. QED  BY <2>1, <2>2, <2>3
<1>12. CopiedIn(p, f, i)
  BY <1>2, <1>3, <1>4, <1>5, <1>6, <1>7, <1>8, <1>9, <1>11 DEF CopiedIn
<1>. QED  BY <1>12

(* The next i bytes of a small write lie behind the others.                *)
LEMMA LaidMore ==
    ASSUME DataInv, StreamInv, NEW p \in Proc, pc[p] = "wcopy", ocnt[p] <= PIPE_BUF,
           NEW f \in Node, NEW i \in Nat, CopiedIn(p, f, i)
    PROVE  /\ Given(p) \in Nat /\ Given(p) <= size[f]
           /\ \A k \in 1 .. Given(p) + i :
                 CellAt(buf'[f], wptr[f] - Given(p) + k - 1) = Written(p, k)
<1>1. f = fd[p].f /\ resid[p] <= ocnt[p]  BY DEF CopiedIn
<1>2. /\ resid[p] \in Nat /\ ocnt[p] \in Nat /\ wptr[f] \in Nat /\ rptr[f] \in Nat
      /\ size[f] \in Nat /\ wptr[f] - rptr[f] = size[f]
  BY DEF DataInv, DataTypes, Pointers
<1>3. PICK g \in Nat, w \in Nat : g = Given(p) /\ w = wptr[f]
  BY <1>1, <1>2 DEF Given
<1>4. /\ g <= size[f]
      /\ \A k \in 1 .. g : CellAt(buf[f], w - g + k - 1) = Written(p, k)
  BY <1>1, <1>3 DEF StreamInv, Laid
<1>5. /\ \A o \in Nat : o < w => CellAt(buf'[f], o) = CellAt(buf[f], o)
      /\ \A j \in 0 .. i - 1 : CellAt(buf'[f], w + j) = Written(p, g + j + 1)
  BY <1>3 DEF CopiedIn
<1>6. ASSUME NEW k \in 1 .. g + i PROVE CellAt(buf'[f], w - g + k - 1) = Written(p, k)
  <2>1. g <= w  BY <1>2, <1>3, <1>4
  <2>2. CASE k <= g
    <3>1. k \in 1 .. g /\ w - g + k - 1 \in Nat /\ w - g + k - 1 < w  BY <2>1, <2>2
    <3>. QED  BY <1>4, <1>5, <3>1
  <2>3. CASE k > g
    <3>1. k - g - 1 \in 0 .. i - 1 /\ w - g + k - 1 = w + (k - g - 1) /\ g + (k - g - 1) + 1 = k
      BY <2>1, <2>3
    <3>2. CellAt(buf'[f], w + (k - g - 1)) = Written(p, g + (k - g - 1) + 1)  BY <1>5, <3>1
    <3>. QED  BY <3>1, <3>2
  <2>4. k <= g \/ k > g  OBVIOUS
  <2>. QED  BY <2>2, <2>3, <2>4
<1>. QED  BY <1>3, <1>4, <1>6

LEMMA CopyInStream ==
    ASSUME CallInv, DataInv, StreamInv, NEW p \in Proc, pc[p] = "wcopy",
           NEW f \in Node, NEW i \in Nat, CopiedIn(p, f, i)
    PROVE  StreamInv'
<1>1. OnlyMoves(p) /\ OthersHeld(p) /\ LockMoves(p)  BY DEF CopiedIn
<1>2. CASE pc'[p] = "user"
  BY <1>1, <1>2, NotWriting, StreamKept DEF WriteCall
<1>3. CASE pc'[p] = "wtop"
  <2>1. ocnt'[p] = ocnt[p] /\ count[p] = i /\ resid[p] > i  BY <1>3 DEF CopiedIn
  <2>2. ~(ocnt[p] <= PIPE_BUF)
    <3>1. ocnt[p] <= PIPE_BUF => count[p] = resid[p]  BY DEF StreamInv, Whole, WriteCall
    <3>2. resid[p] \in Nat  BY DEF DataInv, DataTypes
    <3>. QED  BY <2>1, <3>1, <3>2
  <2>3. Whole(p)' /\ Laid(p)'  BY <1>3, <2>1, <2>2 DEF Whole, Laid
  <2>. QED  BY <1>1, <2>3, StreamKept
<1>4. CASE pc'[p] = "wcopy"
  <2>1. /\ ocnt'[p] = ocnt[p] /\ count'[p] = count[p] - i /\ resid'[p] = resid[p] - i /\ fd' = fd
        /\ f = fd[p].f /\ size'[f] = size[f] + i /\ wptr'[f] = wptr[f] + i
        /\ resid[p] <= ocnt[p] /\ i <= resid[p]
    <3>1. count[p] \in Nat /\ resid[p] \in Nat  BY DEF DataInv, DataTypes
    <3>. QED  BY <1>4, <3>1 DEF CopiedIn
  <2>2. /\ resid[p] \in Nat /\ ocnt[p] \in Nat /\ wptr[f] \in Nat /\ rptr[f] \in Nat
        /\ size[f] \in Nat /\ wptr[f] - rptr[f] = size[f]
    BY DEF DataInv, DataTypes, Pointers
  <2>3. Whole(p)'
    <3>1. ocnt[p] <= PIPE_BUF => count[p] = resid[p]  BY DEF StreamInv, Whole, WriteCall
    <3>. QED  BY <1>4, <2>1, <3>1 DEF Whole
  <2>4. Laid(p)'
    <3>. SUFFICES ASSUME ocnt[p] <= PIPE_BUF
                  PROVE  /\ Given(p)' <= size'[f]
                         /\ \A k \in 1 .. Given(p)' :
                               CellAt(buf'[f], wptr'[f] - Given(p)' + k - 1) = Written(p, k)'
      BY <2>1 DEF Laid
    <3>1. PICK g \in Nat, w \in Nat : g = Given(p) /\ w = wptr[f]
      BY <2>1, <2>2 DEF Given
    <3>2. Given(p)' = g + i /\ wptr'[f] - (g + i) = w - g  BY <2>1, <2>2, <3>1 DEF Given
    <3>3. g <= size[f]  BY <2>1, <3>1 DEF StreamInv, Laid
    <3>5. \A k \in 1 .. g + i : CellAt(buf'[f], w - g + k - 1) = Written(p, k)
      BY <3>1, LaidMore
    <3>6. \A k : Written(p, k)' = Written(p, k)  BY <2>1 DEF Written
    <3>7. wptr'[f] - Given(p)' = w - g  BY <3>2
    <3>8. g + i <= size'[f]  BY <2>1, <2>2, <3>1, <3>3
    <3>. QED  BY <3>2, <3>5, <3>6, <3>7, <3>8
  <2>. QED  BY <1>1, <2>3, <2>4, StreamKept
<1>. QED  BY <1>2, <1>3, <1>4 DEF CopiedIn

(* What CopyOut does, for the fifo f and the chunk of i bytes.             *)
CopiedOut(p, f, i) ==
    /\ f = fd[p].f /\ i > 0 /\ i <= size[f] /\ size'[f] = size[f] - i
    /\ \A k \in 1 .. size[f] - i : CellAt(buf'[f], rptr'[f] + k - 1) = CellAt(buf[f], rptr[f] + i + k - 1)
    /\ \A g \in Node \ {f} : /\ buf'[g] = buf[g] /\ rptr'[g] = rptr[g]
                             /\ wptr'[g] = wptr[g] /\ size'[g] = size[g]
    /\ UNCHANGED <<fd, rcnt, wcnt>>
    /\ OnlyMoves(p) /\ OthersHeld(p) /\ LockMoves(p) /\ pc'[p] \notin WriteCall

LEMMA CopyOutFacts ==
    ASSUME CallInv, DataInv, StreamInv, NEW p \in Proc, CopyOut(p)
    PROVE  \E f \in Node, i \in Nat : CopiedOut(p, f, i)
<1>. USE LabelFacts
<1>1. pc[p] = "rcopy" /\ pc[p] \in Holders /\ pc[p] # "user"
  BY DEF CopyOut, Holders
<1>2. PICK f \in Node : f = fd[p].f  BY <1>1, FdOfCaller DEF CallInv
<1>3. /\ count[p] \in Nat /\ count[p] > 0 /\ count[p] <= size[f]
      /\ wptr[f] \in Nat /\ rptr[f] \in Nat /\ size[f] \in Nat
      /\ wptr[f] - rptr[f] = size[f] /\ rptr[f] < PIPE_BSZ
  BY <1>1, <1>2 DEF DataInv, DataTypes, Transfer, Pointers
<1>4. PICK i \in Nat : i = Chunk(p, rptr[f]) /\ i > 0 /\ i <= count[p]
  BY <1>3, ChunkFacts
<1>5. PICK B \in Seq([1 .. PIPE_BSZ -> Cell]) : B = buf[f] /\ wptr[f] <= Len(B) * PIPE_BSZ
  BY DEF DataInv, DataTypes, Pointers, nbuf
<1>6. /\ size' = [size EXCEPT ![f] = @ - i]
      /\ rptr' = [rptr EXCEPT ![f] = IF Drained(f, i) = 1 THEN 0 ELSE @ + i]
      /\ wptr' = [wptr EXCEPT ![f] = @ - Drained(f, i) * PIPE_BSZ]
      /\ buf' = [buf EXCEPT ![f] = IF Drained(f, i) = 1 THEN Tail(@) ELSE @]
      /\ UNCHANGED <<fd, rcnt, wcnt>>
  BY <1>2, <1>4 DEF CopyOut
<1>7. /\ size'[f] = size[f] - i
      /\ rptr'[f] = IF Drained(f, i) = 1 THEN 0 ELSE rptr[f] + i
      /\ buf'[f] = IF Drained(f, i) = 1 THEN Tail(B) ELSE B
      /\ \A g \in Node \ {f} : /\ buf'[g] = buf[g] /\ rptr'[g] = rptr[g]
                               /\ wptr'[g] = wptr[g] /\ size'[g] = size[g]
  BY <1>5, <1>6 DEF DataInv, DataTypes
<1>8. ASSUME NEW k \in 1 .. size[f] - i
      PROVE  CellAt(buf'[f], rptr'[f] + k - 1) = CellAt(B, rptr[f] + i + k - 1)
  <2>1. CASE Drained(f, i) = 1
    <3>1. rptr[f] + i = PIPE_BSZ  BY <2>1 DEF Drained
    <3>2. PICK o \in Nat : o = k - 1  OBVIOUS
    <3>3. Len(B) * PIPE_BSZ \in Nat  BY OneMoreBuffer
    <3>4. o + PIPE_BSZ = rptr[f] + i + k - 1 /\ o + PIPE_BSZ < Len(B) * PIPE_BSZ
      <4>1. k <= size[f] - i  BY <1>3, <1>4
      <4>2. o + PIPE_BSZ = rptr[f] + i + k - 1  BY <1>3, <3>1, <3>2
      <4>3. o + PIPE_BSZ < wptr[f]  BY <1>3, <4>1, <4>2
      <4>4. PICK m \in Nat : m = Len(B) * PIPE_BSZ  BY <3>3, Zenon
      <4>5. wptr[f] <= m  BY <1>5, <4>4, Zenon
      <4>6. o + PIPE_BSZ \in Nat  BY Sizes
      <4>7. PICK x \in Nat : x = o + PIPE_BSZ  BY <4>6, Zenon
      <4>8. PICK w \in Nat : w = wptr[f]  BY <1>3, Zenon
      <4>9. x < w /\ w <= m  BY <4>3, <4>5, <4>7, <4>8
      <4>10. x < m  BY <4>9
      <4>. QED  BY <4>2, <4>4, <4>7, <4>10, Zenon
    <3>5. CellAt(Tail(B), o) = CellAt(B, o + PIPE_BSZ)  BY <3>4, TailCells
    <3>6. buf'[f] = Tail(B) /\ rptr'[f] = 0  BY <1>7, <2>1
    <3>7. rptr'[f] + k - 1 = o  BY <3>2, <3>6
    <3>. QED  BY <3>4, <3>5, <3>6, <3>7
  <2>2. CASE Drained(f, i) # 1
    BY <1>7, <2>2
  <2>. QED  BY <2>1, <2>2
<1>9. OthersHeld(p)
  <2>1. \A q \in Proc \ {p} : pc[q] \in Holders => fd[q].f \in Node /\ fd[q].f # f
    BY <1>1, <1>2, HeldAlone
  <2>. QED  BY <1>7, <2>1 DEF OthersHeld
<1>10. OnlyMoves(p) /\ LockMoves(p) /\ pc'[p] \notin WriteCall
  <2>1. CASE count[p] = i
    <3>1. EndCall(p) /\ \E C, Q : Goto(p, "user", NoChan, C, Q)
      BY <1>2, <1>4, <2>1 DEF CopyOut
    <3>2. \A q \in Proc \ {p} : ocnt'[q] = ocnt[q] /\ resid'[q] = resid[q] /\ count'[q] = count[q]
      BY <3>1, EndCallTypes DEF DataInv
    <3>3. OnlyMoves(p) /\ pc'[p] = "user"  BY <1>6, <3>1, <3>2, GotoMoves
    <3>4. LockMoves(p)  BY <3>1, FifoConstants DEF EndCall, LockMoves
    <3>. QED  BY <3>3, <3>4 DEF WriteCall
  <2>2. CASE count[p] # i
    <3>1. /\ UNCHANGED <<ocnt, lock>> /\ count' = [count EXCEPT ![p] = @ - i]
          /\ resid' = [resid EXCEPT ![p] = @ - i] /\ \E C, Q : Goto(p, "rcopy", NoChan, C, Q)
      BY <1>2, <1>4, <2>2 DEF CopyOut
    <3>2. OnlyMoves(p) /\ pc'[p] = "rcopy"
      BY <1>6, <3>1, GotoMoves DEF DataInv, DataTypes
    <3>3. LockMoves(p)
      BY <1>6, <3>1, <3>2 DEF LockMoves, StreamInv, Owned, Holders
    <3>. QED  BY <3>2, <3>3 DEF WriteCall
  <2>. QED  BY <2>1, <2>2
<1>11. i <= size[f]  BY <1>3, <1>4
<1>12. CopiedOut(p, f, i)
  BY <1>2, <1>4, <1>5, <1>6, <1>7, <1>8, <1>9, <1>10, <1>11 DEF CopiedOut
<1>. QED  BY <1>12

LEMMA CopyOutStream ==
    ASSUME StreamInv, NEW p \in Proc, pc[p] = "rcopy",
           NEW f \in Node, NEW i \in Nat, CopiedOut(p, f, i)
    PROVE  StreamInv' /\ Quiet(p)
<1>1. OnlyMoves(p) /\ OthersHeld(p) /\ LockMoves(p) /\ pc'[p] \notin WriteCall  BY DEF CopiedOut
<1>2. Whole(p)' /\ Laid(p)' /\ Quiet(p)  BY <1>1, NotWriting DEF Quiet, WriteCall
<1>. QED  BY <1>1, <1>2, StreamKept

LEMMA StreamStep ==
    ASSUME ~LinkInData, CallInv, DataInv, StreamInv, [Next]_vars
    PROVE  StreamInv'
<1>1. CASE UNCHANGED vars
  <2>1. UNCHANGED <<pc, fd, ocnt, resid, count, lock, buf, wptr, size>>
    BY <1>1 DEF vars, callvars, datavars
  <2>. QED  BY <2>1 DEF StreamInv, Owned, Whole, Laid, Given, Written
<1>2. ASSUME NEW p \in Proc, UserStep(p) PROVE StreamInv'
  <2>1. CASE fifo_close(p)  BY <2>1, CloseStream DEF fifo_close
  <2>. QED  BY <1>2, <2>1, OpenStream, EntryStream DEF UserStep
<1>3. ASSUME NEW p \in Proc, KernelStep(p) PROVE StreamInv'
  <2>1. CASE CopyIn(p)  BY <2>1, CopyInFacts, CopyInStream DEF CopyIn
  <2>2. CASE CopyOut(p)  BY <2>2, CopyOutFacts, CopyOutStream DEF CopyOut
  <2>3. CASE \/ WriteSleeps(p) \/ WriteStarts(p) \/ AllocSleeps(p) \/ AllocReserves(p) \/ WriteCopies(p)
    BY <2>3, WriteStream
  <2>4. CASE WriteFails(p) \/ ReadEnds(p)  BY <2>4, ReturnStream
  <2>5. CASE ReadSleeps(p) \/ ReadStarts(p)  BY <2>5, ReadStream
  <2>6. CASE OpenAgain(p)  BY <2>6, OpenStream
  <2>7. CASE fifo_bufalloc(p)  BY <2>7, BufallocStream
  <2>. QED  BY <1>3, <2>1, <2>2, <2>3, <2>4, <2>5, <2>6, <2>7 DEF KernelStep
<1>4. ASSUME NEW p \in Proc, Disturb(p) PROVE StreamInv'
  <2>1. CASE OpenInterrupted(p)
    BY <2>1, CloseStream DEF OpenInterrupted, CallInv, DescInv
  <2>. QED  BY <1>4, <2>1, OpenStream, ReturnStream DEF Disturb
<1>. QED  BY <1>1, <1>2, <1>3, <1>4 DEF Next

-----------------------------------------------------------------------------
(* The bytes that the stream shows                                         *)

(* The stream is the contents without what a small write has put in so     *)
(* far; only the holder of the lock can hide something.                    *)
View ==
    \A f \in Node :
        /\ Unseen(f) \in Nat /\ Unseen(f) <= size[f]
        /\ Visible(f) = Window(buf[f], rptr[f], size[f] - Unseen(f))
        /\ \A p \in Proc : Hid(p, f) # 0 => Unseen(f) = Hid(p, f)
        /\ (\A p \in Proc : Hid(p, f) = 0) => Unseen(f) = 0
        /\ Handed(f) = [p \in Proc |-> Hand(p, f)]

LEMMA WindowFirst ==
    ASSUME NEW B, NEW r \in Nat, NEW n \in Nat, NEW m \in 0 .. n
    PROVE  SubSeq(Window(B, r, n), 1, m) = Window(B, r, m)
<1>. DEFINE W == Window(B, r, n)
<1>1. \A k \in 1 .. n : W[k] = CellAt(B, r + k - 1)  BY DEF Window
<1>2. W \in Seq({CellAt(B, r + k - 1) : k \in 1 .. n}) /\ Len(W) = n  BY WindowSeq
<1>3. Window(B, r, m) = [k \in 1 .. m |-> CellAt(B, r + k - 1)]  BY DEF Window
<1>. HIDE DEF W
<1>4. SubSeq(W, 1, m) = [k \in 1 .. m |-> W[k]]  BY <1>2
<1>5. [k \in 1 .. m |-> W[k]] = [k \in 1 .. m |-> CellAt(B, r + k - 1)]  BY <1>1
<1>. QED  BY <1>3, <1>4, <1>5 DEF W

LEMMA ViewHolds ==
    ASSUME ~LinkInData, CallInv, DataInv, StreamInv
    PROVE  View
<1>. SUFFICES ASSUME NEW f \in Node
              PROVE  /\ Unseen(f) \in Nat /\ Unseen(f) <= size[f]
                     /\ Visible(f) = Window(buf[f], rptr[f], size[f] - Unseen(f))
                     /\ \A p \in Proc : Hid(p, f) # 0 => Unseen(f) = Hid(p, f)
                     /\ (\A p \in Proc : Hid(p, f) = 0) => Unseen(f) = 0
                     /\ Handed(f) = [p \in Proc |-> Hand(p, f)]
  BY DEF View
<1>1. size[f] \in Nat /\ rptr[f] \in Nat  BY DEF DataInv, DataTypes
<1>2. Handed(f) = [p \in Proc |-> Hand(p, f)]  BY DEF Handed, Hand, Given
<1>3. \A p \in Proc : Hid(p, f) # 0 => lock[f] = p /\ pc[p] = "wcopy" /\ ocnt[p] <= PIPE_BUF
  BY DEF Hid, CallInv, LockHeld, Holders
<1>4. /\ Unseen(f) \in Nat /\ Unseen(f) <= size[f]
      /\ \A p \in Proc : Hid(p, f) # 0 => Unseen(f) = Hid(p, f)
      /\ (\A p \in Proc : Hid(p, f) = 0) => Unseen(f) = 0
  <2>1. CASE \E p \in Proc : lock[f] = p /\ pc[p] = "wcopy" /\ ocnt[p] <= PIPE_BUF
    <3>1. PICK p \in Proc : lock[f] = p /\ pc[p] = "wcopy" /\ ocnt[p] <= PIPE_BUF  BY <2>1
    <3>2. fd[p].f = f  BY <3>1 DEF StreamInv, Owned
    <3>3. Unseen(f) = Given(p) /\ Hid(p, f) = Given(p)  BY <3>1, <3>2 DEF Unseen, Hid, Given
    <3>4. Given(p) \in Nat
      <4>1. ocnt[p] \in Nat /\ resid[p] \in Nat /\ resid[p] <= ocnt[p]
        BY <3>1 DEF DataInv, DataTypes, Transfer, WriteCall
      <4>. QED  BY <4>1 DEF Given
    <3>5. Given(p) <= size[f]  BY <3>1, <3>2 DEF StreamInv, Laid
    <3>6. \A q \in Proc : Hid(q, f) # 0 => q = p  BY <1>3, <3>1
    <3>. QED  BY <3>3, <3>4, <3>5, <3>6
  <2>2. CASE ~\E p \in Proc : lock[f] = p /\ pc[p] = "wcopy" /\ ocnt[p] <= PIPE_BUF
    <3>1. Unseen(f) = 0  BY <2>2 DEF Unseen
    <3>2. \A p \in Proc : Hid(p, f) = 0  BY <1>3, <2>2
    <3>. QED  BY <1>1, <3>1, <3>2
  <2>. QED  BY <2>1, <2>2
<1>5. Contents(f) = Window(buf[f], rptr[f], size[f])
  BY DEF Contents, Window, ByteAt, CellAt, Reached
<1>6. Visible(f) = Window(buf[f], rptr[f], size[f] - Unseen(f))
  <2>1. size[f] - Unseen(f) \in 0 .. size[f]  BY <1>1, <1>4
  <2>. QED  BY <1>1, <1>5, <2>1, WindowFirst DEF Visible
<1>. QED  BY <1>2, <1>4, <1>6

(* Who hides as much as before hides the same.                             *)
LEMMA SameUnseen ==
    ASSUME View, View', NEW f \in Node, \A p \in Proc : Hid(p, f)' = Hid(p, f)
    PROVE  Unseen(f)' = Unseen(f)
<1>1. CASE \E p \in Proc : Hid(p, f) # 0
  <2>1. PICK p \in Proc : Hid(p, f) # 0  BY <1>1
  <2>2. Unseen(f) = Hid(p, f)  BY <2>1 DEF View
  <2>3. Unseen(f)' = Hid(p, f)'  BY <2>1 DEF View
  <2>. QED  BY <2>2, <2>3
<1>2. CASE \A p \in Proc : Hid(p, f) = 0
  <2>1. Unseen(f) = 0  BY <1>2 DEF View
  <2>2. Unseen(f)' = 0  BY <1>2 DEF View
  <2>. QED  BY <2>1, <2>2
<1>. QED  BY <1>1, <1>2

LEMMA SameVisible ==
    ASSUME View, View', NEW f \in Node, \A p \in Proc : Hid(p, f)' = Hid(p, f),
           buf'[f] = buf[f], rptr'[f] = rptr[f], size'[f] = size[f]
    PROVE  Visible(f)' = Visible(f)
<1>1. Unseen(f)' = Unseen(f)  BY SameUnseen
<1>2. Visible(f) = Window(buf[f], rptr[f], size[f] - Unseen(f))  BY DEF View
<1>3. Visible(f)' = Window(buf'[f], rptr'[f], size'[f] - Unseen(f)')  BY DEF View, Window, CellAt
<1>. QED  BY <1>1, <1>2, <1>3

(* Only p's part of what is handed over changes.                           *)
LEMMA HandedMoves ==
    ASSUME View, View', NEW f \in Node, NEW p \in Proc, OnlyMoves(p)
    PROVE  Handed(f)' = [Handed(f) EXCEPT ![p] = Hand(p, f)']
<1>1. Handed(f) = [q \in Proc |-> Hand(q, f)]  BY DEF View
<1>2. Handed(f)' = [q \in Proc |-> Hand(q, f)']  BY DEF View
<1>3. \A q \in Proc \ {p} : Hand(q, f)' = Hand(q, f)  BY QuietOthers DEF Quiet
<1>. QED  BY <1>1, <1>2, <1>3

LEMMA HandedSame ==
    ASSUME View, View', NEW f \in Node, NEW p \in Proc, OnlyMoves(p), Hand(p, f)' = Hand(p, f)
    PROVE  Handed(f)' = Handed(f)
<1>1. Handed(f) = [q \in Proc |-> Hand(q, f)]  BY DEF View
<1>2. Handed(f)' = [Handed(f) EXCEPT ![p] = Hand(p, f)]  BY HandedMoves
<1>. QED  BY <1>1, <1>2

-----------------------------------------------------------------------------
(* Every step of a fifo is one of the stream, or none                      *)

Moved == Stream!Next \/ UNCHANGED <<Visible(Watched), rcnt[Watched], wcnt[Watched], Handed(Watched)>>

(* A step of p that shows nothing of the watched fifo.                     *)
LEMMA QuietStep ==
    ASSUME View, View', NEW p \in Proc, OnlyMoves(p),
           Hid(p, Watched)' = Hid(p, Watched), Hand(p, Watched)' = Hand(p, Watched),
           buf'[Watched] = buf[Watched], rptr'[Watched] = rptr[Watched], size'[Watched] = size[Watched],
           rcnt'[Watched] = rcnt[Watched], wcnt'[Watched] = wcnt[Watched]
    PROVE  Moved
<1>1. \A q \in Proc : Hid(q, Watched)' = Hid(q, Watched)
  BY QuietOthers, WatchedNode DEF Quiet
<1>2. Visible(Watched)' = Visible(Watched)  BY <1>1, SameVisible, WatchedNode
<1>3. Handed(Watched)' = Handed(Watched)  BY HandedSame, WatchedNode
<1>. QED  BY <1>2, <1>3 DEF Moved

(* A call returns that hides nothing: a large write is at its end.         *)
LEMMA FinishStep ==
    ASSUME View, View', NEW p \in Proc, OnlyMoves(p), pc'[p] = "user", Hid(p, Watched) = 0,
           buf'[Watched] = buf[Watched], rptr'[Watched] = rptr[Watched], size'[Watched] = size[Watched],
           rcnt'[Watched] = rcnt[Watched], wcnt'[Watched] = wcnt[Watched]
    PROVE  Moved
<1>0. Hid(p, Watched)' = 0 /\ Hand(p, Watched)' = <<0, 0>>
  BY NotWriting, WatchedNode DEF WriteCall
<1>1. \A q \in Proc : Hid(q, Watched)' = Hid(q, Watched)
  BY <1>0, QuietOthers, WatchedNode DEF Quiet
<1>2. Visible(Watched)' = Visible(Watched)  BY <1>1, SameVisible, WatchedNode
<1>3. Handed(Watched)' = [Handed(Watched) EXCEPT ![p] = <<0, 0>>]
  BY <1>0, HandedMoves, WatchedNode
<1>4. Handed(Watched)[p] = Hand(p, Watched) /\ Handed(Watched) \in [Proc -> {Hand(q, Watched) : q \in Proc}]
  BY WatchedNode DEF View
<1>5. CASE Hand(p, Watched) = <<0, 0>>
  <2>1. Handed(Watched)' = Handed(Watched)  BY <1>0, <1>5, HandedSame, WatchedNode
  <2>. QED  BY <1>2, <2>1 DEF Moved
<1>6. CASE Hand(p, Watched) # <<0, 0>>
  <2>1. Stream!Finish(p)  BY <1>2, <1>3, <1>4, <1>6 DEF Stream!Finish, Stream!Idle
  <2>. QED  BY <2>1 DEF Moved, Stream!Next
<1>. QED  BY <1>5, <1>6

(* The bytes a + 1 to b of a write of n bytes come in behind the v bytes   *)
(* that are visible, and are visible then.                                 *)
ComesIn(p, f, n, a, b, v) ==
    /\ rptr[f] \in Nat /\ rptr'[f] = rptr[f]
    /\ size[f] - Unseen(f) = v /\ size'[f] - Unseen(f)' = v + (b - a)
    /\ \A k \in 1 .. v : CellAt(buf'[f], rptr[f] + k - 1) = CellAt(buf[f], rptr[f] + k - 1)
    /\ \A k \in 1 .. b - a :
          CellAt(buf'[f], rptr[f] + v + k - 1) = [w |-> p, n |-> n, i |-> a + k]
Shown(p, f, n, a, b, v) ==
    /\ Visible(f)' = Visible(f) \o Stream!Piece(p, n, a + 1, b)
    /\ Len(Visible(f)) = v

LEMMA Appears ==
    ASSUME View, View', NEW f \in Node, NEW p \in Proc, NEW n, NEW a \in Nat, NEW b \in Nat, a < b,
           NEW v \in Nat, ComesIn(p, f, n, a, b, v)
    PROVE  Shown(p, f, n, a, b, v)
<1>. USE DEF ComesIn
<1>0. PICK B, C : B = buf[f] /\ C = buf'[f]  OBVIOUS
<1>1. PICK r \in Nat, m \in Nat : B = buf[f] /\ C = buf'[f] /\ r = rptr[f] /\ m = b - a
  BY <1>0
<1>2. Visible(f) = Window(B, r, v)  BY <1>1 DEF View
<1>3. Visible(f)' = Window(C, r, v + m)
  <2>1. Visible(f)' = Window(buf'[f], rptr'[f], size'[f] - Unseen(f)')  BY DEF View, Window, CellAt
  <2>. QED  BY <1>1, <2>1
<1>4. Stream!Piece(p, n, a + 1, b) = [k \in 1 .. m |-> CellAt(C, r + v + k - 1)]
  <2>1. b - (a + 1) + 1 = m  BY <1>1
  <2>2. \A k \in 1 .. m : (a + 1) + k - 1 = a + k  OBVIOUS
  <2>3. Stream!Piece(p, n, a + 1, b) = [k \in 1 .. m |-> [w |-> p, n |-> n, i |-> (a + 1) + k - 1]]
    BY <2>1 DEF Stream!Piece
  <2>4. \A k \in 1 .. m : CellAt(C, r + v + k - 1) = [w |-> p, n |-> n, i |-> (a + 1) + k - 1]
    BY <1>1, <2>2
  <2>. QED  BY <2>3, <2>4
<1>5. \A k \in 1 .. v : CellAt(C, r + k - 1) = CellAt(B, r + k - 1)  BY <1>1
<1>6. Window(C, r + v, m) = Stream!Piece(p, n, a + 1, b)
  BY <1>4 DEF Window
<1>7. Window(C, r, v + m) = Window(B, r, v) \o Window(C, r + v, m)
  <2>1. Window(C, r, v) = Window(B, r, v)  BY <1>5 DEF Window
  <2>2. r \in Nat /\ v \in Nat /\ m \in Nat  BY <1>1
  <2>3. Window(C, r, v + m) = WindowPair(C, r, v, m)  BY <2>2, WindowMore
  <2>. QED  BY <2>1, <2>3, Zenon DEF WindowPair
<1>8. Len(Visible(f)) = v
  <2>1. Len(Window(B, r, v)) = v  BY WindowSeq, Zenon
  <2>. QED  BY <1>2, <2>1, Zenon
<1>. QED  BY <1>2, <1>3, <1>6, <1>7, <1>8, Zenon DEF Shown

LEMMA PutStep ==
    ASSUME NEW p \in Proc, NEW n \in WriteSizes, NEW a \in Nat, NEW b \in Nat, a < b, b <= n,
           NEW v \in Nat, Shown(p, Watched, n, a, b, v), v + (b - a) <= PIPE_BUF,
           Handed(Watched)[p] = IF a = 0 THEN <<0, 0>> ELSE <<n, a>>,
           wcnt[Watched] > 0, rcnt'[Watched] = rcnt[Watched], wcnt'[Watched] = wcnt[Watched],
           \/ Handed(Watched)' = [Handed(Watched) EXCEPT ![p] = <<n, b>>] /\ n > PIPE_BUF
           \/ Handed(Watched)' = [Handed(Watched) EXCEPT ![p] = <<0, 0>>] /\ (b = n \/ Faults)
    PROVE  Moved
<1>1. n \in Nat /\ PIPE_BUF \in Nat /\ b \in a + 1 .. n  BY Sizes
<1>2. Handed(Watched)[p][2] = a /\ (Handed(Watched)[p] # <<0, 0>> => Handed(Watched)[p][1] = n)
  <2>1. CASE a = 0  BY <2>1
  <2>2. CASE a # 0  BY <2>2
  <2>. QED  BY <2>1, <2>2
<1>3. ~(n > PIPE_BUF /\ n <= PIPE_BUF)  BY <1>1
<1>4. /\ Visible(Watched)' = Visible(Watched) \o Stream!Piece(p, n, a + 1, b)
      /\ Len(Visible(Watched)) = v
  BY DEF Shown
<1>5. Len(Visible(Watched)) + b - a <= PIPE_BUF
  <2>1. v + b - a = v + (b - a)  OBVIOUS
  <2>2. Len(Visible(Watched)) = v  BY <1>4
  <2>. QED  BY <2>1, <2>2
<1>6. Stream!Put(p, n)
  BY <1>1, <1>2, <1>3, <1>4, <1>5 DEF Stream!Put, Stream!Idle
<1>. QED  BY <1>6 DEF Moved, Stream!Next

-----------------------------------------------------------------------------
(* The steps that move bytes                                               *)

(* While p has the lock of f, nobody else hides anything in f.             *)
LEMMA OneHides ==
    ASSUME CallInv, View, View', NEW p \in Proc, pc[p] \in Holders, OnlyMoves(p),
           NEW f \in Node, f = fd[p].f
    PROVE  Unseen(f) = Hid(p, f) /\ Unseen(f)' = Hid(p, f)'
<1>1. \A q \in Proc \ {p} : Hid(q, f) = 0  BY HeldAlone DEF Hid, Holders
<1>2. \A q \in Proc \ {p} : Hid(q, f)' = 0  BY <1>1, QuietOthers DEF Quiet
<1>3. Unseen(f) = Hid(p, f)
  <2>1. CASE Hid(p, f) # 0  BY <2>1 DEF View
  <2>2. CASE Hid(p, f) = 0
    <3>1. \A q \in Proc : Hid(q, f) = 0  BY <1>1, <2>2
    <3>. QED  BY <2>2, <3>1 DEF View
  <2>. QED  BY <2>1, <2>2
<1>4. Unseen(f)' = Hid(p, f)'
  <2>1. CASE Hid(p, f)' # 0  BY <2>1 DEF View
  <2>2. CASE Hid(p, f)' = 0
    <3>1. \A q \in Proc : Hid(q, f)' = 0  BY <1>2, <2>2
    <3>. QED  BY <2>2, <3>1 DEF View
  <2>. QED  BY <2>1, <2>2
<1>. QED  BY <1>3, <1>4

(* A transfer elsewhere.                                                   *)
LEMMA ElsewhereStep ==
    ASSUME View, View', NEW p \in Proc, OnlyMoves(p), fd[p].f # Watched, fd'[p] = fd[p],
           buf'[Watched] = buf[Watched], rptr'[Watched] = rptr[Watched], size'[Watched] = size[Watched],
           rcnt'[Watched] = rcnt[Watched], wcnt'[Watched] = wcnt[Watched]
    PROVE  Moved
<1>1. Hid(p, Watched) = 0 /\ Hid(p, Watched)' = 0  BY DEF Hid
<1>2. Hand(p, Watched) = <<0, 0>> /\ Hand(p, Watched)' = <<0, 0>>  BY DEF Hand, Writing
<1>. QED  BY <1>1, <1>2, QuietStep

(* A chunk comes in.  Those of a small write are seen together with the    *)
(* last one.                                                               *)
LEMMA CopyInMoves ==
    ASSUME CallInv, DataInv, WakeInv, StreamInv, View, View', NEW p \in Proc, pc[p] = "wcopy",
           NEW f \in Node, NEW i \in Nat, CopiedIn(p, f, i)
    PROVE  Moved
<1>1. /\ OnlyMoves(p) /\ f = fd[p].f /\ fd' = fd /\ rcnt' = rcnt /\ wcnt' = wcnt
      /\ \A g \in Node \ {f} : buf'[g] = buf[g] /\ rptr'[g] = rptr[g] /\ size'[g] = size[g]
  BY DEF CopiedIn
<1>2. CASE f # Watched  BY <1>1, <1>2, WatchedNode, ElsewhereStep
<1>3. CASE f = Watched
  <2>1. pc[p] \in Holders /\ pc[p] \in WriteCall  BY DEF Holders, WriteCall
  <2>2. wcnt[f] > 0 /\ fd[p] # NoFd
    <3>1. fd[p] # NoFd /\ fd[p].w  BY <2>1 DEF CallInv, DescInv, WakeInv, Directions
    <3>2. wcnt[f] # 0 /\ wcnt[f] \in Nat  BY <1>1, <3>1, OpenCounted DEF CallInv, CallTypes
    <3>. QED  BY <3>1, <3>2
  <2>3. PICK s \in Nat, w \in Nat, r \in Nat, n \in WriteSizes, d \in Nat, c \in Nat :
            s = size[f] /\ w = wptr[f] /\ r = rptr[f] /\ n = ocnt[p] /\ d = resid[p] /\ c = count[p]
    BY DEF CopiedIn, DataInv, DataTypes
  <2>4. /\ n \in Nat /\ PIPE_BUF \in Nat /\ w = r + s /\ i > 0 /\ i <= c /\ c <= d /\ d <= n
        /\ s + c <= PIPE_BUF /\ size'[f] = s + i /\ rptr'[f] = r
    BY <2>3, Sizes DEF CopiedIn, DataInv, Pointers
  <2>5. PICK g \in Nat : g = Given(p) /\ g + d = n  BY <2>3, <2>4 DEF Given
  <2>6. Unseen(f) = Hid(p, f) /\ Unseen(f)' = Hid(p, f)'  BY <1>1, <2>1, OneHides
  <2>7. /\ \A o \in Nat : o < w => CellAt(buf'[f], o) = CellAt(buf[f], o)
        /\ \A j \in 0 .. i - 1 : CellAt(buf'[f], w + j) = [w |-> p, n |-> n, i |-> g + j + 1]
    BY <2>3, <2>5 DEF CopiedIn, Written
  <2>8. \/ /\ c > i /\ pc'[p] = "wcopy" /\ ocnt'[p] = n /\ resid'[p] = d - i
        \/ c = i /\ d > i /\ pc'[p] = "wtop" /\ ocnt'[p] = n /\ resid'[p] = d - i
        \/ c = i /\ d = i /\ pc'[p] = "user"
    BY <2>3 DEF CopiedIn
  <2>9. Handed(f)' = [Handed(f) EXCEPT ![p] = Hand(p, f)'] /\ Handed(f)[p] = Hand(p, f)
    BY <1>1, HandedMoves DEF View
  <2>10. CASE n <= PIPE_BUF
    <3>1. c = d  BY <2>1, <2>3, <2>10 DEF StreamInv, Whole
    <3>2. Hid(p, f) = g /\ Hand(p, f) = <<0, 0>>
      BY <1>1, <2>3, <2>4, <2>5, <2>10 DEF Hid, Hand
    <3>3. /\ g <= s
          /\ \A k \in 1 .. g + i : CellAt(buf'[f], w - g + k - 1) = Written(p, k)
      BY <2>3, <2>5, <2>10, LaidMore
    <3>4. PICK v \in Nat : v = s - g /\ r + v = w - g  BY <2>4, <3>3
    <3>5. \A k \in 1 .. v : CellAt(buf'[f], r + k - 1) = CellAt(buf[f], r + k - 1)
      <4>. SUFFICES ASSUME NEW k \in 1 .. v PROVE CellAt(buf'[f], r + k - 1) = CellAt(buf[f], r + k - 1)
        OBVIOUS
      <4>1. r + k - 1 \in Nat /\ r + k - 1 < w  BY <2>4, <3>4
      <4>. QED  BY <2>7, <4>1
    <3>6. CASE c > i
      <4>1. pc'[p] = "wcopy" /\ ocnt'[p] = n /\ resid'[p] = d - i  BY <2>8, <3>6
      <4>2. Given(p)' = g + i  BY <2>4, <2>5, <4>1 DEF Given
      <4>3. Hid(p, f)' = g + i  BY <1>1, <2>10, <4>1, <4>2 DEF Hid
      <4>4. Hand(p, f)' = <<0, 0>>  BY <2>4, <2>10, <4>1 DEF Hand
      <4>5. size[f] - Unseen(f) = v /\ size'[f] - Unseen(f)' = v
        BY <2>3, <2>4, <2>6, <3>2, <3>4, <4>3
      <4>6. Visible(f) = Window(buf[f], r, v)  BY <2>3, <4>5 DEF View
      <4>7. Visible(f)' = Window(buf'[f], r, v)  BY <2>4, <4>5 DEF View, Window, CellAt
      <4>8. Visible(f)' = Visible(f)  BY <3>5, <4>6, <4>7 DEF Window
      <4>9. Handed(f)' = Handed(f)  BY <1>1, <3>2, <4>4, HandedSame
      <4>. QED  BY <1>1, <1>3, <4>8, <4>9 DEF Moved
    <3>7. CASE ~(c > i)
      <4>1. pc'[p] = "user" /\ c = i /\ d = i  BY <2>4, <2>8, <3>1, <3>7
      <4>2. Hid(p, f)' = 0 /\ Hand(p, f)' = <<0, 0>>  BY <4>1, NotWriting DEF WriteCall
      <4>3. size[f] - Unseen(f) = v /\ size'[f] - Unseen(f)' = v + (n - 0) /\ 0 < n
        BY <2>3, <2>4, <2>5, <2>6, <3>2, <3>4, <4>1, <4>2
      <4>4. \A k \in 1 .. n - 0 :
               CellAt(buf'[f], r + v + k - 1) = [w |-> p, n |-> n, i |-> 0 + k]
        <5>1. g + i = n /\ n - 0 = n /\ \A k \in 1 .. n : 0 + k = k  BY <2>4, <2>5, <4>1
        <5>2. \A k : Written(p, k) = [w |-> p, n |-> n, i |-> k]  BY <2>3 DEF Written
        <5>. QED  BY <3>3, <3>4, <5>1, <5>2
      <4>5. Shown(p, f, n, 0, n, v)
        <5>1. ComesIn(p, f, n, 0, n, v)  BY <2>3, <2>4, <3>5, <4>3, <4>4 DEF ComesIn
        <5>. QED  BY <2>4, <4>3, <5>1, Appears
      <4>6. v + (n - 0) <= PIPE_BUF  BY <2>4, <2>5, <3>4, <4>1
      <4>7. Handed(f)' = [Handed(f) EXCEPT ![p] = <<0, 0>>] /\ Handed(f)[p] = <<0, 0>>
        BY <2>9, <3>2, <4>2
      <4>8. PICK a \in Nat, b \in Nat : a = 0 /\ b = n /\ a < b /\ b <= n  BY <2>4, <4>3
      <4>9. /\ Shown(p, f, n, a, b, v) /\ v + (b - a) <= PIPE_BUF
            /\ Handed(f)[p] = IF a = 0 THEN <<0, 0>> ELSE <<n, a>>
        BY <4>5, <4>6, <4>7, <4>8
      <4>10. rcnt'[f] = rcnt[f] /\ wcnt'[f] = wcnt[f]  BY <1>1
      <4>11. Handed(f)' = [Handed(f) EXCEPT ![p] = <<0, 0>>] /\ b = n  BY <4>7, <4>8
      <4>12. a < b /\ b <= n  BY <4>8
      <4>. QED  BY <1>3, <2>2, <4>9, <4>10, <4>11, <4>12, PutStep
    <3>. QED  BY <3>6, <3>7
  <2>11. CASE ~(n <= PIPE_BUF)
    <3>1. Hid(p, f) = 0 /\ Hid(p, f)' = 0  BY <2>3, <2>8, <2>11 DEF Hid
    <3>2. Hand(p, f) = IF g = 0 THEN <<0, 0>> ELSE <<n, g>>
      <4>1. Writing(p, f)  BY <1>1, <2>1, <2>2 DEF Writing
      <4>2. (d < n) <=> g # 0  BY <2>4, <2>5
      <4>. QED  BY <2>3, <2>4, <2>5, <2>11, <4>1, <4>2 DEF Hand
    <3>3. PICK b \in Nat : b = g + i /\ b - g = i /\ g < b /\ b <= n  BY <2>4, <2>5
    <3>4. size[f] - Unseen(f) = s /\ size'[f] - Unseen(f)' = s + (b - g)
      BY <2>3, <2>4, <2>6, <3>1, <3>3
    <3>5. \A k \in 1 .. s : CellAt(buf'[f], r + k - 1) = CellAt(buf[f], r + k - 1)
      <4>. SUFFICES ASSUME NEW k \in 1 .. s PROVE CellAt(buf'[f], r + k - 1) = CellAt(buf[f], r + k - 1)
        OBVIOUS
      <4>1. r + k - 1 \in Nat /\ r + k - 1 < w  BY <2>4
      <4>. QED  BY <2>7, <4>1
    <3>6. \A k \in 1 .. b - g :
             CellAt(buf'[f], r + s + k - 1) = [w |-> p, n |-> n, i |-> g + k]
      <4>. SUFFICES ASSUME NEW k \in 1 .. i
                    PROVE  CellAt(buf'[f], r + s + k - 1) = [w |-> p, n |-> n, i |-> g + k]
        BY <3>3
      <4>1. k - 1 \in 0 .. i - 1 /\ w + (k - 1) = r + s + k - 1 /\ g + (k - 1) + 1 = g + k
        BY <2>4
      <4>2. CellAt(buf'[f], w + (k - 1)) = [w |-> p, n |-> n, i |-> g + (k - 1) + 1]  BY <2>7, <4>1
      <4>. QED  BY <4>1, <4>2
    <3>7. Shown(p, f, n, g, b, s)
      <4>1. ComesIn(p, f, n, g, b, s)  BY <2>3, <2>4, <3>4, <3>5, <3>6 DEF ComesIn
      <4>. QED  BY <3>3, <4>1, Appears
    <3>8. s + (b - g) <= PIPE_BUF  BY <2>4, <3>3
    <3>9. \/ Hand(p, f)' = <<n, b>> /\ n > PIPE_BUF
          \/ Hand(p, f)' = <<0, 0>> /\ b = n
      <4>1. CASE d > i
        <5>1. pc'[p] \in WriteCall /\ ocnt'[p] = n /\ resid'[p] = d - i
          BY <2>8, <4>1 DEF WriteCall
        <5>2. Writing(p, f)'  BY <1>1, <2>2, <5>1 DEF Writing
        <5>3. Given(p)' = b /\ resid'[p] < ocnt'[p] /\ ocnt'[p] > PIPE_BUF
          BY <2>4, <2>5, <2>11, <3>3, <5>1 DEF Given
        <5>4. Hand(p, f)' = <<n, b>>  BY <5>1, <5>2, <5>3 DEF Hand
        <5>. QED  BY <2>4, <2>11, <5>4
      <4>2. CASE ~(d > i)
        <5>1. pc'[p] = "user" /\ d = i  BY <2>4, <2>8, <4>2
        <5>2. Hand(p, f)' = <<0, 0>>  BY <5>1, NotWriting DEF WriteCall
        <5>. QED  BY <2>5, <3>3, <5>1, <5>2
      <4>. QED  BY <4>1, <4>2
    <3>10. Handed(f)[p] = IF g = 0 THEN <<0, 0>> ELSE <<n, g>>  BY <2>9, <3>2
    <3>11. \/ Handed(f)' = [Handed(f) EXCEPT ![p] = <<n, b>>] /\ n > PIPE_BUF
           \/ Handed(f)' = [Handed(f) EXCEPT ![p] = <<0, 0>>] /\ (b = n \/ Faults)
      BY <2>9, <3>9
    <3>. QED  BY <1>1, <1>3, <2>2, <3>3, <3>7, <3>8, <3>10, <3>11, PutStep
  <2>. QED  BY <2>10, <2>11
<1>. QED  BY <1>2, <1>3

(* A copy fails.  What a small write has put in is seen from now on, a     *)
(* large write is at its end.                                              *)
LEMMA FaultMoves ==
    ASSUME CallInv, DataInv, WakeInv, StreamInv, View, View', NEW p \in Proc, CopyFaults(p)
    PROVE  Moved
<1>. DEFINE f == Watched
<1>1. /\ OnlyMoves(p) /\ pc'[p] = "user" /\ UNCHANGED <<fd, rcnt, wcnt, buf, rptr, wptr, size>>
  BY ReturnStream
<1>2. CASE Hid(p, f) = 0  BY <1>1, <1>2, FinishStep
<1>3. CASE Hid(p, f) # 0
  <2>1. pc[p] = "wcopy" /\ fd[p].f = f /\ ocnt[p] <= PIPE_BUF /\ Hid(p, f) = Given(p) /\ f \in Node
    BY <1>3, WatchedNode DEF Hid
  <2>2. pc[p] \in Holders /\ pc[p] \in WriteCall  BY <2>1 DEF Holders, WriteCall
  <2>3. wcnt[f] > 0
    <3>1. fd[p] # NoFd /\ fd[p].w  BY <2>1, <2>2 DEF CallInv, DescInv, WakeInv, Directions
    <3>2. wcnt[f] # 0 /\ wcnt[f] \in Nat  BY <2>1, <3>1, OpenCounted DEF CallInv, CallTypes
    <3>. QED  BY <3>2
  <2>4. PICK s \in Nat, w \in Nat, r \in Nat, n \in WriteSizes, d \in Nat :
            s = size[f] /\ w = wptr[f] /\ r = rptr[f] /\ n = ocnt[p] /\ d = resid[p]
    BY <2>1, <2>2 DEF DataInv, DataTypes, Transfer
  <2>5. n \in Nat /\ PIPE_BUF \in Nat /\ w = r + s /\ d <= n /\ s <= PIPE_BUF
    BY <2>1, <2>2, <2>4, Sizes DEF DataInv, Pointers, Transfer
  <2>6. PICK g \in Nat : g = Given(p) /\ g + d = n /\ g # 0  BY <1>3, <2>1, <2>4, <2>5 DEF Given
  <2>7. /\ g <= s
        /\ \A k \in 1 .. g : CellAt(buf[f], w - g + k - 1) = [w |-> p, n |-> n, i |-> k]
    BY <2>1, <2>4, <2>6 DEF StreamInv, Laid, Written
  <2>8. PICK v \in Nat : v = s - g /\ r + v = w - g  BY <2>5, <2>7
  <2>9. Hid(p, f)' = 0 /\ Hand(p, f)' = <<0, 0>>  BY <1>1, <2>1, NotWriting DEF WriteCall
  <2>10. Unseen(f) = g /\ Unseen(f)' = 0  BY <1>1, <2>1, <2>2, <2>6, <2>9, OneHides
  <2>11. PICK a \in Nat : a = 0 /\ a < g /\ g <= n  BY <2>5, <2>6
  <2>12. ComesIn(p, f, n, a, g, v)
    <3>1. size[f] - Unseen(f) = v /\ size'[f] - Unseen(f)' = v + (g - a)
      BY <1>1, <2>4, <2>7, <2>8, <2>10, <2>11
    <3>2. \A k \in 1 .. g - a :
             CellAt(buf'[f], r + v + k - 1) = [w |-> p, n |-> n, i |-> a + k]
      <4>1. g - a = g /\ \A k \in 1 .. g : a + k = k  BY <2>11
      <4>. QED  BY <1>1, <2>7, <2>8, <4>1
    <3>. QED  BY <1>1, <2>4, <3>1, <3>2 DEF ComesIn
  <2>13. Shown(p, f, n, a, g, v)  BY <2>1, <2>11, <2>12, Appears
  <2>14. v + (g - a) <= PIPE_BUF  BY <2>5, <2>8, <2>11
  <2>15. Hand(p, f) = <<0, 0>>  BY <2>1, <2>4, <2>5 DEF Hand
  <2>16. /\ Handed(f)[p] = IF a = 0 THEN <<0, 0>> ELSE <<n, a>>
         /\ Handed(f)' = [Handed(f) EXCEPT ![p] = <<0, 0>>]
    BY <1>1, <2>1, <2>9, <2>11, <2>15, HandedMoves DEF View
  <2>17. Faults  BY DEF CopyFaults
  <2>18. rcnt'[f] = rcnt[f] /\ wcnt'[f] = wcnt[f]  BY <1>1
  <2>. QED  BY <2>3, <2>11, <2>13, <2>14, <2>16, <2>17, <2>18, PutStep
<1>. QED  BY <1>2, <1>3

(* A chunk goes out.                                                       *)
LEMMA CopyOutMoves ==
    ASSUME CallInv, DataInv, WakeInv, StreamInv, View, View', NEW p \in Proc, pc[p] = "rcopy",
           NEW f \in Node, NEW i \in Nat, CopiedOut(p, f, i), rptr'[f] \in Nat
    PROVE  Moved
<1>1. /\ OnlyMoves(p) /\ f = fd[p].f /\ fd' = fd /\ rcnt' = rcnt /\ wcnt' = wcnt
      /\ \A g \in Node \ {f} : buf'[g] = buf[g] /\ rptr'[g] = rptr[g] /\ size'[g] = size[g]
  BY DEF CopiedOut
<1>2. CASE f # Watched  BY <1>1, <1>2, WatchedNode, ElsewhereStep
<1>3. CASE f = Watched
  <2>1. pc[p] \in Holders /\ pc[p] \in ReadCall /\ pc[p] \notin WriteCall
    BY DEF Holders, ReadCall, WriteCall
  <2>2. rcnt[f] > 0
    <3>1. fd[p] # NoFd /\ fd[p].r  BY <2>1 DEF CallInv, DescInv, WakeInv, Directions
    <3>2. rcnt[f] # 0 /\ rcnt[f] \in Nat  BY <1>1, <3>1, OpenCounted DEF CallInv, CallTypes
    <3>. QED  BY <3>2
  <2>3. PICK B, C : B = buf[f] /\ C = buf'[f]  OBVIOUS
  <2>4. PICK n \in Nat, r \in Nat, t \in Nat : n = size[f] /\ r = rptr[f] /\ t = rptr'[f]
    BY DEF DataInv, DataTypes
  <2>5. /\ i > 0 /\ i <= n /\ size'[f] = n - i
        /\ \A k \in 1 .. n - i : CellAt(C, t + k - 1) = CellAt(B, r + i + k - 1)
    BY <2>3, <2>4 DEF CopiedOut
  <2>6. Hid(p, f) = 0 /\ Hid(p, f)' = 0 /\ Hand(p, f) = <<0, 0>> /\ Hand(p, f)' = <<0, 0>>
    BY <2>1, NotWriting DEF CopiedOut
  <2>7. Unseen(f) = 0 /\ Unseen(f)' = 0  BY <1>1, <2>1, <2>6, OneHides
  <2>8. Visible(f) = Window(B, r, n)
    <3>1. size[f] - Unseen(f) = n  BY <2>4, <2>7
    <3>. QED  BY <2>3, <2>4, <3>1 DEF View
  <2>9. Visible(f)' = Window(C, t, n - i)
    <3>1. size'[f] - Unseen(f)' = n - i  BY <2>4, <2>5, <2>7
    <3>2. Visible(f)' = Window(buf'[f], rptr'[f], size'[f] - Unseen(f)')  BY DEF View, Window, CellAt
    <3>. QED  BY <2>3, <2>4, <3>1, <3>2
  <2>10. Window(C, t, n - i) = SubSeq(Window(B, r, n), i + 1, n)
    <3>1. i \in 0 .. n  BY <2>5
    <3>2. Window(C, t, n - i) = Window(B, r + i, n - i)  BY <2>5 DEF Window
    <3>3. Window(B, r + i, n - i) = WindowTail(B, r, n, i)  BY <3>1, WindowRest
    <3>. QED  BY <3>2, <3>3, Zenon DEF WindowTail
  <2>11. Len(Visible(f)) = n
    <3>1. Len(Window(B, r, n)) = n  BY WindowSeq, Zenon
    <3>. QED  BY <2>8, <3>1, Zenon
  <2>12. Visible(f)' = SubSeq(Visible(f), i + 1, Len(Visible(f)))
    BY <2>8, <2>9, <2>10, <2>11, Zenon
  <2>13. Handed(f)' = Handed(f)  BY <1>1, <2>6, HandedSame
  <2>14. i \in 1 .. Len(Visible(f))  BY <2>5, <2>11
  <2>15. Stream!Get(i)  BY <1>1, <1>3, <2>2, <2>12, <2>13, <2>14 DEF Stream!Get
  <2>. QED  BY <1>3, <2>14, <2>15 DEF Moved, Stream!Next
<1>. QED  BY <1>2, <1>3

(* A new buffer shows nothing.                                             *)
LEMMA BufallocMoves ==
    ASSUME ~LinkInData, CallInv, DataInv, StreamInv, View, View', NEW p \in Proc, fifo_bufalloc(p)
    PROVE  Moved
<1>1. OnlyMoves(p) /\ Quiet(p)  BY BufallocStream
<1>2. UNCHANGED <<fd, rcnt, wcnt, rptr, size>> /\ pc[p] = "kmem"  BY DEF fifo_bufalloc
<1>3. PICK f \in Node : f = fd[p].f  BY <1>2, FdOfCaller DEF CallInv
<1>4. buf' = [buf EXCEPT ![f] = Grown(f)]  BY <1>3 DEF fifo_bufalloc
<1>5. CASE f # Watched
  <2>1. buf'[Watched] = buf[Watched]  BY <1>4, <1>5, WatchedNode DEF DataInv, DataTypes
  <2>. QED  BY <1>1, <1>2, <1>3, <1>5, <2>1, ElsewhereStep
<1>6. CASE f = Watched
  <2>1. \A q \in Proc : Hid(q, f)' = Hid(q, f)  BY <1>1, QuietOthers DEF Quiet
  <2>2. Unseen(f)' = Unseen(f)  BY <2>1, SameUnseen
  <2>3. PICK r \in Nat, u \in Nat, n \in Nat :
            r = rptr[f] /\ n = nbuf(f) /\ u = size[f] - Unseen(f) /\ u <= size[f]
    BY DEF View, DataInv, DataTypes, nbuf
  <2>4. PICK B, C : B = buf[f] /\ C = Grown(f) /\ C = buf'[f]
    BY <1>4 DEF DataInv, DataTypes
  <2>5. \A k \in 1 .. u : CellAt(C, r + k - 1) = CellAt(B, r + k - 1)
    <3>. SUFFICES ASSUME NEW k \in 1 .. u PROVE CellAt(C, r + k - 1) = CellAt(B, r + k - 1)
      OBVIOUS
    <3>1. n * PIPE_BSZ \in Nat  BY Sizes
    <3>2. wptr[f] - r = size[f] /\ wptr[f] <= n * PIPE_BSZ /\ wptr[f] \in Nat /\ size[f] \in Nat
      BY <2>3 DEF DataInv, DataTypes, Pointers
    <3>3. r + k - 1 \in Nat /\ r + k - 1 < n * PIPE_BSZ  BY <2>3, <3>1, <3>2
    <3>. QED  BY <2>3, <2>4, <3>3, GrownCells DEF DataInv
  <2>6. Visible(f) = Window(B, r, u)  BY <2>3, <2>4 DEF View
  <2>7. Visible(f)' = Window(C, r, u)
    <3>1. Visible(f)' = Window(buf'[f], rptr'[f], size'[f] - Unseen(f)')  BY DEF View, Window, CellAt
    <3>. QED  BY <1>2, <2>2, <2>3, <2>4, <3>1
  <2>8. Window(C, r, u) = Window(B, r, u)  BY <2>5 DEF Window
  <2>9. Handed(f)' = Handed(f)  BY <1>1, HandedSame DEF Quiet
  <2>. QED  BY <1>2, <1>6, <2>6, <2>7, <2>8, <2>9 DEF Moved
<1>. QED  BY <1>5, <1>6

-----------------------------------------------------------------------------
(* Opening and closing                                                     *)

LEMMA OpenMoves ==
    ASSUME CallInv, StreamInv, View, View', NEW p \in Proc, NEW f \in Node, NEW m \in Modes[p],
           fifo_open(p, f, m)
    PROVE  Moved
<1>1. OnlyMoves(p) /\ Quiet(p) /\ UNCHANGED <<buf, rptr, wptr, size>>  BY OpenStream
<1>2. /\ Hid(p, Watched)' = Hid(p, Watched) /\ Hand(p, Watched)' = Hand(p, Watched)
  BY <1>1, WatchedNode DEF Quiet
<1>3. /\ rcnt' = [rcnt EXCEPT ![f] = rcnt[f] + Ends(m.r)]
      /\ wcnt' = [wcnt EXCEPT ![f] = wcnt[f] + Ends(m.w)]
  BY DEF fifo_open
<1>4. CASE f # Watched
  <2>1. rcnt'[Watched] = rcnt[Watched] /\ wcnt'[Watched] = wcnt[Watched]
    BY <1>3, <1>4, WatchedNode DEF CallInv, CallTypes
  <2>. QED  BY <1>1, <1>2, <2>1, QuietStep
<1>5. CASE f = Watched
  <2>1. \A q \in Proc : Hid(q, f)' = Hid(q, f)  BY <1>1, QuietOthers DEF Quiet
  <2>2. Visible(f)' = Visible(f)  BY <1>1, <2>1, SameVisible
  <2>3. Handed(f)' = Handed(f)  BY <1>1, HandedSame DEF Quiet
  <2>4. PICK r \in 0 .. 1, w \in 0 .. 1 : r = Ends(m.r) /\ w = Ends(m.w) /\ r + w > 0
    <3>1. m.r \/ m.w  BY FifoConstants
    <3>. QED  BY <3>1 DEF Ends
  <2>5. rcnt'[f] = rcnt[f] + r /\ wcnt'[f] = wcnt[f] + w
    BY <1>3, <2>4 DEF CallInv, CallTypes
  <2>6. Stream!Open(r, w)  BY <1>5, <2>2, <2>3, <2>4, <2>5 DEF Stream!Open
  <2>. QED  BY <2>6 DEF Moved, Stream!Next
<1>. QED  BY <1>4, <1>5

(* The last close of both ends throws the bytes away, and no other does.   *)
LEMMA CloseMoves ==
    ASSUME CallInv, DataInv, StreamInv, View, View', NEW p \in Proc, fd[p] # NoFd,
           pc[p] \in {"user", "oread", "owrite"}, CloseEnds(p)
    PROVE  Moved
<1>1. OnlyMoves(p) /\ Quiet(p)  BY CloseStream
<1>2. /\ Hid(p, Watched)' = Hid(p, Watched) /\ Hand(p, Watched)' = Hand(p, Watched)
  BY <1>1, WatchedNode DEF Quiet
<1>3. PICK f \in Node : f = fd[p].f  BY FdFields DEF CallInv, CallTypes
<1>4. PICK r \in 0 .. 1, w \in 0 .. 1 : r = Ends(fd[p].r) /\ w = Ends(fd[p].w) /\ r + w > 0
  BY DEF Ends, CallInv, DescInv
<1>5. rcnt[f] \in Nat /\ wcnt[f] \in Nat /\ rcnt[f] >= r /\ wcnt[f] >= w
  <2>1. rcnt[f] \in Nat /\ wcnt[f] \in Nat  BY DEF CallInv, CallTypes
  <2>2. (fd[p].w => wcnt[f] # 0) /\ (fd[p].r => rcnt[f] # 0)  BY <1>3, OpenCounted
  <2>. QED  BY <1>4, <2>1, <2>2 DEF Ends
<1>6. /\ rcnt' = [rcnt EXCEPT ![f] = rcnt[f] - r] /\ wcnt' = [wcnt EXCEPT ![f] = wcnt[f] - w]
      /\ IF rcnt[f] - r = 0 /\ wcnt[f] - w = 0
         THEN /\ buf' = [buf EXCEPT ![f] = << >>] /\ rptr' = [rptr EXCEPT ![f] = 0]
              /\ size' = [size EXCEPT ![f] = 0]
         ELSE UNCHANGED <<buf, rptr, size>>
  BY <1>3, <1>4 DEF CloseEnds, datavars
<1>7. CASE f # Watched
  <2>1. rcnt'[Watched] = rcnt[Watched] /\ wcnt'[Watched] = wcnt[Watched]
    BY <1>6, <1>7, WatchedNode DEF CallInv, CallTypes
  <2>2. buf'[Watched] = buf[Watched] /\ rptr'[Watched] = rptr[Watched] /\ size'[Watched] = size[Watched]
    BY <1>6, <1>7, WatchedNode DEF DataInv, DataTypes
  <2>. QED  BY <1>1, <1>2, <2>1, <2>2, QuietStep
<1>8. CASE f = Watched
  <2>1. rcnt'[f] = rcnt[f] - r /\ wcnt'[f] = wcnt[f] - w  BY <1>6 DEF CallInv, CallTypes
  <2>2. \A q \in Proc : Hid(q, f)' = Hid(q, f)  BY <1>1, QuietOthers DEF Quiet
  <2>3. Handed(f)' = Handed(f)  BY <1>1, HandedSame DEF Quiet
  <2>4. Visible(f)' = IF rcnt'[f] = 0 /\ wcnt'[f] = 0 THEN << >> ELSE Visible(f)
    <3>1. CASE rcnt[f] - r = 0 /\ wcnt[f] - w = 0
      <4>1. size'[f] = 0  BY <1>6, <3>1 DEF DataInv, DataTypes
      <4>2. \A q \in Proc : Hid(q, f) = 0
        <5>1. \A q \in Proc \ {p} : fd[q] # NoFd => fd[q].f # f
          BY <1>3, <1>4, <3>1, LastClose
        <5>2. pc[p] # "wcopy"  OBVIOUS
        <5>. QED  BY <5>1, <5>2 DEF Hid, CallInv, DescInv
      <4>3. \A q \in Proc : Hid(q, f)' = 0  BY <2>2, <4>2
      <4>4. Unseen(f)' = 0  BY <4>3 DEF View
      <4>5. Visible(f)' = Window(buf'[f], rptr'[f], size'[f] - Unseen(f)')  BY DEF View, Window, CellAt
      <4>6. size'[f] - Unseen(f)' = 0  BY <4>1, <4>4
      <4>7. Visible(f)' = << >>  BY <4>5, <4>6, WindowEmpty
      <4>. QED  BY <2>1, <3>1, <4>7
    <3>2. CASE ~(rcnt[f] - r = 0 /\ wcnt[f] - w = 0)
      <4>1. Visible(f)' = Visible(f)  BY <1>6, <2>2, <3>2, SameVisible
      <4>. QED  BY <2>1, <3>2, <4>1
    <3>. QED  BY <3>1, <3>2
  <2>5. Stream!Close(r, w)  BY <1>4, <1>5, <1>8, <2>1, <2>3, <2>4 DEF Stream!Close
  <2>. QED  BY <2>5 DEF Moved, Stream!Next
<1>. QED  BY <1>7, <1>8

-----------------------------------------------------------------------------
(* The refinement                                                          *)

LEMMA StillMoves ==
    ASSUME View, View', NEW p \in Proc, OnlyMoves(p), Quiet(p), UNCHANGED <<buf, rptr, size, rcnt, wcnt>>
    PROVE  Moved
BY QuietStep, WatchedNode DEF Quiet

LEMMA UserMoves ==
    ASSUME CallInv, DataInv, StreamInv, View, View', NEW p \in Proc, UserStep(p)
    PROVE  Moved
<1>1. CASE fifo_close(p)  BY <1>1, CloseMoves DEF fifo_close
<1>2. CASE \E f \in Node, m \in Modes[p] : fifo_open(p, f, m)  BY <1>2, OpenMoves
<1>3. CASE (\E n \in WriteSizes : Write(p, n)) \/ (\E n \in ReadSizes : Read(p, n))
  <2>1. OnlyMoves(p) /\ Quiet(p)  BY <1>3, EntryStream
  <2>2. UNCHANGED <<buf, rptr, size, rcnt, wcnt>>  BY <1>3 DEF Write, Read, datavars
  <2>. QED  BY <2>1, <2>2, StillMoves
<1>4. CASE \E k \in Selects : select(p, k)
  <2>1. OnlyMoves(p) /\ Quiet(p)  BY <1>4, OpenStream
  <2>2. UNCHANGED <<buf, rptr, size, rcnt, wcnt>>  BY <1>4 DEF select, datavars
  <2>. QED  BY <2>1, <2>2, StillMoves
<1>. QED  BY <1>1, <1>2, <1>3, <1>4 DEF UserStep

(* A call returns that is not in the middle of a copy.                     *)
LEMMA ReturnMoves ==
    ASSUME CallInv, DataInv, StreamInv, View, View', NEW p \in Proc,
           WriteFails(p) \/ ReadEnds(p) \/ TransferInterrupted(p)
    PROVE  Moved
<1>1. OnlyMoves(p) /\ pc'[p] = "user" /\ UNCHANGED <<fd, rcnt, wcnt, buf, rptr, wptr, size>>
  BY ReturnStream
<1>2. pc[p] # "wcopy"
  BY DEF WriteFails, ReadEnds, TransferInterrupted, AtWriteTop, AtReadTop, Awake
<1>3. Hid(p, Watched) = 0  BY <1>2 DEF Hid
<1>. QED  BY <1>1, <1>3, FinishStep

LEMMA KernelMoves ==
    ASSUME ~LinkInData, CallInv, DataInv, DataInv', WakeInv, StreamInv, View, View',
           NEW p \in Proc, KernelStep(p)
    PROVE  Moved
<1>1. CASE CopyIn(p)
  <2>1. PICK f \in Node, i \in Nat : CopiedIn(p, f, i)  BY <1>1, CopyInFacts
  <2>2. pc[p] = "wcopy"  BY <1>1 DEF CopyIn
  <2>. QED  BY <2>1, <2>2, CopyInMoves
<1>2. CASE CopyOut(p)
  <2>1. PICK f \in Node, i \in Nat : CopiedOut(p, f, i)  BY <1>2, CopyOutFacts
  <2>2. pc[p] = "rcopy" /\ rptr'[f] \in Nat  BY <1>2 DEF CopyOut, DataInv, DataTypes
  <2>. QED  BY <2>1, <2>2, CopyOutMoves
<1>3. CASE fifo_bufalloc(p)  BY <1>3, BufallocMoves
<1>4. CASE WriteFails(p) \/ ReadEnds(p)  BY <1>4, ReturnMoves
<1>5. CASE \/ WriteSleeps(p) \/ WriteStarts(p) \/ AllocSleeps(p) \/ AllocReserves(p) \/ WriteCopies(p)
  <2>1. OnlyMoves(p) /\ Quiet(p)  BY <1>5, WriteStream
  <2>2. UNCHANGED <<buf, rptr, size, rcnt, wcnt>>
    BY <1>5 DEF WriteSleeps, WriteStarts, AllocSleeps, AllocReserves, WriteCopies, datavars
  <2>. QED  BY <2>1, <2>2, StillMoves
<1>6. CASE ReadSleeps(p) \/ ReadStarts(p)
  <2>1. OnlyMoves(p) /\ Quiet(p)  BY <1>6, ReadStream
  <2>2. UNCHANGED <<buf, rptr, size, rcnt, wcnt>>  BY <1>6 DEF ReadSleeps, ReadStarts, datavars
  <2>. QED  BY <2>1, <2>2, StillMoves
<1>7. CASE OpenAgain(p)
  <2>1. OnlyMoves(p) /\ Quiet(p)  BY <1>7, OpenStream
  <2>2. UNCHANGED <<buf, rptr, size, rcnt, wcnt>>  BY <1>7 DEF OpenAgain, datavars
  <2>. QED  BY <2>1, <2>2, StillMoves
<1>. QED  BY <1>1, <1>2, <1>3, <1>4, <1>5, <1>6, <1>7 DEF KernelStep

LEMMA DisturbMoves ==
    ASSUME CallInv, DataInv, WakeInv, StreamInv, View, View', NEW p \in Proc, Disturb(p)
    PROVE  Moved
<1>1. CASE OpenInterrupted(p)  BY <1>1, CloseMoves DEF OpenInterrupted, CallInv, DescInv
<1>2. CASE TransferInterrupted(p)  BY <1>2, ReturnMoves
<1>3. CASE CopyFaults(p)  BY <1>3, FaultMoves
<1>4. CASE SelectEnds(p)
  <2>1. OnlyMoves(p) /\ Quiet(p)  BY <1>4, OpenStream
  <2>2. UNCHANGED <<buf, rptr, size, rcnt, wcnt>>  BY <1>4 DEF SelectEnds, datavars
  <2>. QED  BY <2>1, <2>2, StillMoves
<1>. QED  BY <1>1, <1>2, <1>3, <1>4 DEF Disturb

LEMMA EveryMove ==
    ASSUME ~LinkInData, CallInv, DataInv, DataInv', WakeInv, StreamInv, View, View', [Next]_vars
    PROVE  Moved
<1>1. CASE UNCHANGED vars
  <2>1. UNCHANGED <<pc, fd, ocnt, resid, lock, rcnt, wcnt, buf, rptr, size>>
    BY <1>1 DEF vars, callvars, datavars
  <2>2. \A q \in Proc : Hid(q, Watched)' = Hid(q, Watched) /\ Hand(q, Watched)' = Hand(q, Watched)
    BY <2>1 DEF Hid, Hand, Given, Writing
  <2>3. Visible(Watched)' = Visible(Watched)  BY <2>1, <2>2, SameVisible, WatchedNode
  <2>4. Handed(Watched)' = Handed(Watched)
    <3>1. Handed(Watched) = [q \in Proc |-> Hand(q, Watched)]  BY WatchedNode DEF View
    <3>2. Handed(Watched)' = [q \in Proc |-> Hand(q, Watched)']  BY WatchedNode DEF View
    <3>. QED  BY <2>2, <3>1, <3>2
  <2>. QED  BY <2>1, <2>3, <2>4 DEF Moved
<1>2. CASE Next  BY <1>2, UserMoves, KernelMoves, DisturbMoves DEF Next
<1>. QED  BY <1>1, <1>2

LEMMA FirstState ==
    ASSUME Init, View
    PROVE  Stream!Init
<1>1. \A q \in Proc : Hid(q, Watched) = 0 /\ Hand(q, Watched) = <<0, 0>>
  BY NotWriting DEF Init, WriteCall
<1>2. Unseen(Watched) = 0  BY <1>1, WatchedNode DEF View
<1>3. size[Watched] - Unseen(Watched) = 0  BY <1>2, WatchedNode DEF Init
<1>4. Visible(Watched) = Window(buf[Watched], rptr[Watched], size[Watched] - Unseen(Watched))
  BY WatchedNode DEF View
<1>5. Visible(Watched) = << >>  BY <1>3, <1>4, WindowEmpty
<1>6. Handed(Watched) = [q \in Proc |-> <<0, 0>>]  BY <1>1, WatchedNode DEF View
<1>7. rcnt[Watched] = 0 /\ wcnt[Watched] = 0  BY WatchedNode DEF Init
<1>. QED  BY <1>5, <1>6, <1>7 DEF Stream!Init, Stream!Idle

(* Where the link to the next buffer does not lie over the data, every     *)
(* fifo is a stream of bytes, for any number and any sizes of buffers,     *)
(* processes, reads and writes: nothing is lost, repeated, reordered or    *)
(* invented, a write of at most PIPE_BUF bytes goes in as a whole unless   *)
(* the copy fails, and only the last close throws bytes away.              *)
THEOREM FifoIsStream ==
    ASSUME ~LinkInData
    PROVE  Spec => IsStream
<1>1. CallInv /\ DataInv /\ StreamInv => View  BY ViewHolds
<1>2. Init /\ View => Stream!Init  BY FirstState
<1>3. CallInv /\ DataInv /\ StreamInv /\ [Next]_vars => StreamInv'  BY StreamStep
<1>4. /\ CallInv /\ DataInv /\ DataInv' /\ WakeInv /\ StreamInv /\ View /\ View'
      /\ [Next]_vars
      => [Stream!Next]_(Stream!svars)
  BY EveryMove DEF Moved, Stream!svars
<1>. QED
  BY <1>1, <1>2, <1>3, <1>4, CallInit, CallStep, DataInit, DataStep, SelInit, SelStep,
     WakeInit, WakeStep, StreamInit, PTL DEF Spec, IsStream, Stream!Spec
=============================================================================
