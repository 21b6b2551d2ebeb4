------------------------------- MODULE MCFifo -------------------------------
(* Small instances of Fifo.                                                *)
EXTENDS Fifo, TLC

CONSTANT Watched      \* the fifo whose stream of bytes is looked at
ASSUME WatchedNode == Watched \in Node

CONSTANTS w1, w2, r1

Reader == [r |-> TRUE, w |-> FALSE, nd |-> FALSE]
Writer == [r |-> FALSE, w |-> TRUE, nd |-> FALSE]
NoDelay(m) == [m EXCEPT !.nd = TRUE]
Both == [r |-> TRUE, w |-> TRUE, nd |-> FALSE]

(* Two writers and a reader.                                               *)
Roles == [p \in Proc |-> IF p = r1 THEN {Reader} ELSE {Writer}]

(* A third process that reads, or writes, or does both.                    *)
MixedRoles == [Roles EXCEPT ![w2] = {Reader, NoDelay(Both)}]

Swap == Permutations({w1, w2})

Stream == INSTANCE ByteStream WITH
    Writer <- Proc, Capacity <- PIPE_BUF, Sizes <- WriteSizes,
    queue <- Visible(Watched), readers <- rcnt[Watched], writers <- wcnt[Watched], sent <- Handed(Watched)

(* A fifo implements ByteStream: the buffers, the offsets and the chunks   *)
(* of fifo_rdwr neither lose, repeat, reorder nor invent a byte, whatever  *)
(* the processes do and wherever they fault or are interrupted.            *)
IsStream == Stream!Spec
=============================================================================
