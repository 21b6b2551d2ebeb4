--------------------------- MODULE MCBufferCache ---------------------------
(***************************************************************************)
(* Small instances of BufferCache for TLC.  Three buffer headers; one      *)
(* vnode; blocks are [vp, blkno, size] in fragments.                       *)
(***************************************************************************)
EXTENDS BufferCache, TLC

CONSTANTS p1, p2, p3, b1, b2, b3, v1

R(blkno, size) == [vp |-> v1, blkno |-> blkno, size |-> size]

Frags2 == 0 .. 1
Frags4 == 0 .. 3

(* binit's distribution of buffer memory: equal shares, or one header with *)
(* the residual cluster more.                                              *)
UnitSizes == [b \in Buf |-> 1]
TwoSizes == [b \in Buf |-> 2]
MixedSizes == (b1 :> 2 @@ b2 :> 1 @@ b3 :> 1)

Block02 == {R(0, 2)}
Block01 == {R(0, 1)}
Block11 == {R(1, 1)}
Crossed == {R(1, 2), R(3, 1)}
BothHalves == {R(0, 1), R(1, 1)}
TwoOthers == {R(2, 1), R(3, 1)}
ThreeBlocks == Block02 \cup TwoOthers

One == {1}
None == {}
AllVnodes == {v1}

NoFlags == {{}}
AsyncOnly == {{"B_ASYNC"}}
SyncOrAged == {{}, {"B_ASYNC", "B_AGE"}}
AsyncNocache == {{"B_ASYNC", "B_NOCACHE"}}

(* Buffers are interchangeable only where binit gives them equal shares.   *)
SymProcs == Permutations(Proc)
SymAll == Permutations(Proc) \cup Permutations(Buf)
=============================================================================
