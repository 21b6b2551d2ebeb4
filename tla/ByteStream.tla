----------------------------- MODULE ByteStream -----------------------------
(***************************************************************************)
(* What a named pipe promises (the comments of fifo_vnodeops.c at 73, 125  *)
(* and 214-229): a queue of bytes with a number of readers and of writers. *)
(* Bytes leave it in the order in which they came, each one once; a write  *)
(* of at most Capacity bytes goes in as a whole; a larger one goes in      *)
(* piece by piece, in order; and the queue is emptied when, and only when, *)
(* the last reader and the last writer are gone.                           *)
(*                                                                         *)
(* A write of n bytes by w consists of the bytes [w, n, i], i in 1..n.     *)
(***************************************************************************)
EXTENDS Integers, Sequences

CONSTANTS Writer, Capacity,
          Sizes,    \* the sizes of writes
          Faults    \* may a write fail in the middle?

VARIABLES queue,    \* the bytes, oldest first
          readers, writers,
          sent      \* a writer's current write: its size, the bytes handed over

svars == <<queue, readers, writers, sent>>

Idle == <<0, 0>>

Piece(w, n, first, last) ==
    [k \in 1 .. last - first + 1 |-> [w |-> w, n |-> n, i |-> first + k - 1]]

Init ==
    /\ queue = << >> /\ readers = 0 /\ writers = 0
    /\ sent = [w \in Writer |-> Idle]

Open(r, w) ==
    /\ r + w > 0
    /\ readers' = readers + r /\ writers' = writers + w
    /\ UNCHANGED <<queue, sent>>

Close(r, w) ==
    /\ r + w > 0 /\ readers >= r /\ writers >= w
    /\ readers' = readers - r /\ writers' = writers - w
    /\ queue' = IF readers' = 0 /\ writers' = 0 THEN << >> ELSE queue
    /\ UNCHANGED sent

(* The next piece of a write of n bytes.  A small write has only one piece *)
(* and it is the whole write, unless the write fails with it.              *)
Put(w, n) ==
    LET given == sent[w][2] IN
    /\ writers > 0
    /\ sent[w] # Idle => sent[w][1] = n
    /\ \E last \in given + 1 .. n :
          /\ Len(queue) + last - given <= Capacity
          /\ queue' = queue \o Piece(w, n, given + 1, last)
          /\ \/ sent' = [sent EXCEPT ![w] = <<n, last>>] /\ (n <= Capacity => last = n)
             \/ sent' = [sent EXCEPT ![w] = Idle] /\ (last = n \/ Faults)
    /\ UNCHANGED <<readers, writers>>

(* The write returns: all done, or cut short.                              *)
Finish(w) ==
    /\ sent[w] # Idle
    /\ sent' = [sent EXCEPT ![w] = Idle]
    /\ UNCHANGED <<queue, readers, writers>>

Get(n) ==
    /\ readers > 0
    /\ n \in 1 .. Len(queue)
    /\ queue' = SubSeq(queue, n + 1, Len(queue))
    /\ UNCHANGED <<readers, writers, sent>>

Next ==
    \/ \E r, w \in 0 .. 1 : Open(r, w) \/ Close(r, w)
    \/ \E w \in Writer : Finish(w) \/ \E n \in Sizes : Put(w, n)
    \/ \E n \in 1 .. Len(queue) : Get(n)

Spec == Init /\ [][Next]_svars
=============================================================================
