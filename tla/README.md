# TLA+ models of the SunOS 3.4 kernel and its daemons

This directory holds TLA+ specifications of parts of the SunOS 3.4 source
(`src/`), TLC configurations that check them on small instances, and proofs for
the TLA+ proof system. Paths below are relative to `src/`.

Contents: [inventory](#inventory), [what is modelled](#what-is-modelled),
[runs](#runs), [proofs](#proofs), [disagreements found](#disagreements-found),
[limits](#limits), [plan](#plan), [how to run](#how-to-run).

## Inventory

SunOS 3.4 is a 4.2BSD kernel (`sun/sys`) with vnodes, NFS, the kernel RPC and
System V IPC, its daemons (`etc`), its libraries (`lib`) and several hundred
commands. The logic that is hard to test is in the kernel and in the daemons
that keep state across crashes.

The kernel is uniprocessor and not preemptive. A process in the kernel keeps the
CPU until it calls `sleep`, and only interrupts come in between. Everything a
process knew before it slept may be false when it wakes: most of the hazards in
`PROJECT.json` are of that kind.

| component | state | operations | interacts with | hard because | correct if |
|---|---|---|---|---|---|
| buffer cache (`sun/sys/sys/vfs_bio.c`, `sun/sys/sun/ufs_machdep.c`) | headers with flags, identity, size and memory; free lists; hash chains; what the driver has | bread, breada, getblk, geteblk, brealloc, allocbuf, getnewbuf, brelse, bwrite, bdwrite, biowait, biodone, blkflush, bflush, binvalfree | file systems above, disk drivers below (strategy, `biodone` at interrupt level) | sleeps at five places; lookups made before a sleep; interrupts; memory taken from other headers | one owner per busy buffer, one buffer per block, no lost write, readers see the last write, no sleeper forgotten |
| System V semaphores (`sun/sys/sys/ipc_sem.c`) | set headers, semaphores with value and two sleeper counts, undo structures | semget, semctl, semop, semexit | processes (exit, signals), kernel heap | several operations done in place and taken back; removal while others sleep; counts that wakers reset | semop is atomic, no sleeper misses its chance, removal ends every wait, no set inherits another's undo |
| sleep and wakeup (`sun/sys/sys/kern_synch.c`) | sleep hash queues, process states | sleep, wakeup, unsleep, setrun | everything | stopped and swapped processes on the queues | a wakeup reaches every sleeper of the channel |
| System V messages, shared memory (`ipc_msg.c`, `ipc_shm.c`) | queues, headers, message memory map; segments with attach counts | msgsnd, msgrcv, msgctl; shmget, shmat, shmdt | exit, fork, heap | removal while others sleep; memory that runs out | as for semaphores |
| named pipes (`sun/sys/specfs/fifo_vnodeops.c`) | reader and writer counts, list of buffers with two offsets, size, flags of blocked sides, selectors; memory of all fifos | open, close, rdwr, select | processes, `select`, kernel heap | open, close and select take no lock while a transfer sleeps with it; a system-wide limit on memory; faults in mid-copy | bytes come out once and in order, small writes are whole, nobody sleeps who could go on, the other side's leaving is seen |
| status monitor (`etc/rpc.statd`) | hosts in two directories, state number on disk; requests, counts and hosts to retry in memory | mon, unmon, unmon_all, simu_crash, notify, alarm, start | lock manager over RPC, peers over TCP | crashes between any two system calls, calls executed twice, either daemon restarting alone | every restart reaches every recorded host, with a number it has not seen; the lock manager hears of what it asked for |
| lock manager (`etc/rpc.lockd`, `sun/sys/krpc/klm_lockmgr.c`) | lock lists, blocked lists, table of monitored hosts | lock, unlock, cancel, granted, crash, recovery | kernel, peers, status monitor | lost answers, retries, grace period | no two holders, reclaim after a restart |
| kernel RPC and NFS (`sun/sys/rpc`, `sun/sys/nfs`) | client handles, rnodes, biod queue | calls with retransmission, server dispatch | network, buffer cache | duplicates of calls that are not idempotent | a call has its effect once |
| inode cache, name cache (`sun/sys/ufs/ufs_inode.c`, `sun/sys/sys/vfs_dnlc.c`) | hash chains, free list, reference counts; names with held vnodes | iget, iput, ifree; enter, lookup, purge | file systems, mount | lookups that sleep for the inode lock | one inode in core per inode on disk |
| disk block allocation (`sun/sys/ufs/ufs_alloc.c`) | fragment and block maps of cylinder groups | alloc, realloccg, free | buffer cache | arithmetic on fragment maps | no block allocated twice |
| processes, signals, clock (`sun/sys/sys/kern_*.c`, `subr_rmap.c`) | process table, callouts, resource maps | fork, exit, wait, timeout, untimeout, rmalloc, rmfree | everything | interrupts | callouts fire once, maps conserve |
| virtual memory (`sun/sys/sys/vm_*.c`) | page tables, core map, swap maps | page in, page out, swap | MMU | paging against I/O | – |
| sockets and protocols (`sun/sys/sys/uipc_*.c`, `sun/sys/netinet`) | sockets, mbufs, protocol control blocks | socket calls, protocol input | network | timers, partial transfers | – |
| drivers, machine dependent code, boot | devices | – | interrupts | hardware | – |
| user level | files | – | system calls | mostly sequential | – |

`PROJECT.json` repeats this list with the status of each, and lists the hazards,
at their lines, with the properties that watch them.

## What is modelled

### `BufferCache` — `sun/sys/sys/vfs_bio.c`, `sun/sys/sun/ufs_machdep.c`

State. `buf[b]` is a header: its flags, vnode and block number, `b_bcount`,
`b_bufsize` and the free list it is on. `freeWanted` is `bfreelist[0]`'s
`B_WANTED`, `io` is the set of headers the driver has. Per process: `pc` (which
point of the code), `wchan`, the call it serves and its arguments, and the
pointers `bp` (getblk's and brealloc's buffer), `obp` (breada's first buffer) and
`wbp` (the buffer a nested bwrite waits for, with `ret` the place to go back to).
`cpu` is the process that is in the kernel and awake.

Contents are abstracted to one question: is this the last value written? `mem[b]`
is the set of fragments whose last value is in `b`'s memory, `disk` the set whose
last value is on the disk. A write to a buffer takes its fragments out of every
other place; a transfer copies.

Actions. One action per stretch of code between two points that a sleep or an
interrupt can tell apart; `Next` has three parts.

* `NewCall`: a client calls `bread`, `breada`, `getblk`, `geteblk`, `blkflush`,
  `bflush` or `binvalfree`.
* `ClientStep`: a client that holds a buffer calls `brelse`, `bwrite` or
  `bdwrite`, or, like `realloccg`, grows the block (`Realloc`).
* `KernelStep`: the code in between. `Found` is the search of the hash chain
  (getblk, brealloc and blkflush search it alike and start over after every
  sleep); `WaitBusy`, `WriteDirty` and `GetblkHit` are what is done with a
  buffer found; `Getnewbuf*` takes a buffer off a free list or pushes a dirty one
  out; `Brealloc*`, `Overlap*` and `Allocbuf*` change the size of a buffer and
  throw out the buffers its new extent overlaps; `Bread*`, `ReadAhead*` start
  transfers; `Biowait`, `BwriteDone`, `BreadDone` wait for them.
* `Interrupt`: `Biodone` ends a transfer, with or without an error.

The clients are part of the environment and keep the discipline the file
systems keep: a buffer got with `getblk` is overwritten whole before it is
written; `bread` does not ask for more of a block than a dirty buffer of the same
start holds (a block that grows goes through `realloccg`); read-ahead blocks are
not block 0 (`breada` takes 0 for "none"); `binvalfree` is not called with a null
vnode (it would loop on buffers it has already made anonymous). `brealloc` never
returns 0 for `Realloc`, because that call only grows. What they ask for is a matter of the
constants; the theorems that need more than the types of the requests say so in their hypotheses.

Left out: `baddr`'s own copy of `incore` followed by `bread` (both are modelled),
`binval`, `geterror` and `u_error`, the clamp of block numbers (280-281),
`B_CACHE` (set, never tested), `B_LOCKED` (never set), `B_CALL` (swap headers
only), hash function and list order, tracing; `VN_RELE` does not sleep, and neither
does the strategy routine, which is that of a disk driver (that of NFS may sleep). A client has one
buffer at a time: `realloccg`, when it moves a block, calls `getblk` for the new one while
it still holds the old one, and this is not modelled (growth in place is).

### `SysVSem` — `sun/sys/sys/ipc_sem.c`

State. `sema[h]` is a header (allocated, sequence number, first semaphore,
number of semaphores); an id is a header and a sequence number. `semval` and
`cnt` are a semaphore's value and its `semncnt`/`semzcnt`, the latter being also
the channels processes sleep on. `sem_undo[p]` is `p`'s undo structure,
`un_ent` its adjustments by id and number (0 for none), `semunp` and `semfup`
the active and the free structures. Per process: `pc`, `wchan`, `sig`, and
semop's locals `semid`, `uops`, `done` and `semp`.

Actions. `semget`, `semctl_RMID`, `semctl_SETVAL` and `semexit` do not sleep and
are one action each. SETALL and semop are split where `kmem_alloc` and `copyin`
may sleep; the constant `AllocSleeps` says whether they do. After that semop
takes one action per operation (`OpUp`, `OpDown`, `OpZero`), one when an
operation cannot be done (`OpBlocks`, `OpFails`), one per turn of `semundo`'s
loop (`UndoOp`), and then sleeps or returns. `Interrupted` is the signal path,
which corrects a count that is by then perhaps another's. `Signal` and `Premature`
are the two ways `sleep` returns without a wakeup.

Left out: permissions, IPC_SET, the commands that only read, `sempid`, time
stamps and keys; the sequence number does not go back to 0 when the next id would be
negative (`ipc_sem.c:202`), from where ids that were used long ago come again. `ipcget` takes any free header and `rmalloc` any free run of
semaphores, so what is shown holds for every placement.

Note that `semncnt` is not the exact number of sleepers that the comment on
GETNCNT (236) suggests: a premature return counts a process twice, and an
interrupted sleeper may reduce a count it is no longer part of. What matters,
and is checked, is that the count is never 0 while somebody sleeps on it.

### `Fifo` — `sun/sys/specfs/fifo_vnodeops.c`, part of `sun/sys/sys/sys_generic.c`

State. Per fifo: `rcnt` and `wcnt`, `blk` (`FIFO_RBLK`, `FIFO_WBLK`), `sel` and
`coll` (`fn_rsel`, `fn_wsel`, `fn_xsel` and the collision flags), `lock`, the list of
buffers `buf` with `rptr`, `wptr` and `size` (`fn_nbuf` is the length of the list).
`fifo_alloc` is the memory all fifos have reserved. Per process: `pc`, `wchan`, its
descriptor `fd`, and of `fifo_rdwr` the request `ocnt`, what is left of it `resid`
and of the current piece `count`. A byte is a record of who wrote it, in a write of
how many bytes, and which of these it is, so that loss, repetition and reordering
show; a cell of a buffer holds a byte, garbage, or a part of the link to the next
buffer, which lies over the data where `FIFOBUF = FIFOBSZ` (`fifo.h:23-41`).

Actions. `fifo_open` runs to its first sleep or its end, `OpenAgain` from one sleep
to the next; `fifo_close`, and `OpenInterrupted` for the `setjmp` in open. A write is
`Write` (the call), then from the top of its loop `WriteFails`, `WriteSleeps` or
`WriteStarts`; `AllocSleeps`, `AllocReserves` and `fifo_bufalloc` are the two ways
through `fifo_bufalloc` (`kmem_alloc` may sleep, hence two steps); `WriteCopies` ends
the allocation and `CopyIn` is one `uiomove`, the last one with the wakeups. A read is
`Read`, `ReadEnds`, `ReadSleeps` or `ReadStarts`, and `CopyOut` per `uiomove`.
`CopyFaults` is a failing `uiomove`, `TransferInterrupted` a signal in one of the
sleeps at PPIPE, or after the wakeup and before the process runs (`sleep` looks again, `kern_synch.c:157`). `select` is one scan of one descriptor with the sleep after it;
`SelectEnds` a signal or the timeout.

The steps are at least as fine as the code's, which can lose the CPU only in `sleep`,
`kmem_alloc` and `uiomove`.

Left out: time stamps, `fifo_getattr`, `fifo_inactive`, transfers of no bytes,
`EINVAL` (`PIPE_MAX` is ~0). A process has one descriptor and selects on it only.
The lock is a mutex; that `SNLOCK` and `SNUNLOCK` are one is left to the sleep queues.

### `ByteStream` — what a fifo promises

The abstract specification: a queue of bytes with numbers of readers and writers.
Bytes leave in the order they came, each once; a write of at most `Capacity` bytes
goes in as a whole, a larger one piece by piece; the queue is emptied exactly when
the last reader and the last writer are gone (comments at `fifo_vnodeops.c:73, 125,
214-229`). `MCFifo` maps the state of `Fifo` to it: `queue` is `Visible`, the bytes
between the offsets without those of a small write that still holds the lock (nobody
can read them), and `sent` is `Handed`, how much of a large write is in. `IsStream`
is the refinement: open and close map to `Open` and `Close`, the last `CopyIn` of a
small write and every `CopyIn` of a large one to `Put`, `CopyOut` to `Get`, the
return of a large write to `Finish`, and everything else to a stutter.

### `StatusMonitor` — `etc/rpc.statd`, and `etc/rpc.lockd` as its client

State. On disk `current`, `backup` (the names of the files in the two directories)
and `state`; in statd `LOCAL_STATE`, `monitor_q` (a list, with each entry's pid and
whether its prev pointer is set), `record_q` (counts), `recovery_q` and `alarm`,
and where `statd_init` is (`statd`, `dir`, `told`); in lockd what it believes is
monitored (`me`), its `pid`, the request under way (`asking`), and its progress
through `cancel_mon`. History: `owed`, the hosts recorded when the machine, or statd,
went down and not told since; `sent` and `past`, the largest number sent, and the
same at the last crash; `alone`, whether statd went down under a running lockd.

Actions. `Boot` reads and increments the number and lists CURRENT; `Rename`,
`ReadBackup`, `CallOK`, `Unlink`, `CallFails` and `InitDone` are the system calls of
`statd_init`, one each, so that a crash comes between any two; `sm_try` is SIGALRM.
`insert_mon`, `sm_unmon`, `sm_unmon_all` and `sm_crash` are the requests; `sm_crash`
ends in `statd_init` again. `LockdStarts`, `CancelCrash`, `CancelRecovery` and
`SimuCrash` are lockd's start (a call that times out is made again, so each may be
executed more than once); `Ask`, `Asked` and `AskFails` are `mond`. `MachineCrash`,
`StatdCrash` and `LockdCrash` are the faults; memory is lost, files are not.

`Deleted` keeps a quirk of the list: an entry that `insert_mon` puts behind another
one for the same host has no prev pointer, and `delete_mon` takes it for the head.
Entries in front of it are then lost (still in memory, but on no list). `Walk` is the loop
over the list as it was, `Take` its body for one entry that is to go.

Left out: `sm_stat` (it answers a constant), what lockd does with a notice after it
checked the pid, notices from other hosts as messages (`Heard` says which requests
one would reach), failures of local system calls (statd exits, which `StatdCrash` is),
and signals that arrive in the middle of a request: `sm_try` is atomic between
requests, as an `alarm` of 15 seconds (`SM_INIT_ALARM`) makes it in practice, though not by
construction. A call that fails may have reached its host: `sent` may then grow. lockd
may leave `SimuCrash` before statd's reply, which comes at `InitDone`; statd serves nobody in between.

### MC modules

`MCBufferCache`, `MCSysVSem`, `MCFifo` and `MCStatusMonitor` define the small sets the
configurations use,
and `MCSysVSem` the history variable `start` (values and undo entries when an
attempt began) that `UndoExact` compares with. `MCBufferLive` adds a bound on the
number of calls and the fairness conditions. Definitions named `Something_Variant`
that precede `Something` are deliberate faults: substituted for it they break the
property they are listed with under "mutants" in `PROJECT.json`, which shows that
the property can tell the code from a faulty one.

## Runs

| run | instance | states | what it shows |
|---|---|---|---|
| `buf_uniform` | 3 processes, 3 buffers, one 2-fragment block written and flushed, both its halves read | symmetric in processes and buffers | `BusyIsExclusive`, `NoLostWakeup`, `PanicFree`, `UniqueBlock`, `ReadsCurrent`, `NoLostWrite`, `BlkflushFlushes` |
| `buf_readahead` | 2 processes, read-ahead, growth in place, binvalfree, uncached writes | – | `BusyIsExclusive`, `UniqueBlock`, `ReadsCurrent`, `NoLostWrite` |
| `buf_memory` | 2 processes, 3 buffers of one fragment, blocks of two, transfers may fail | – | `TypeOK`, `NoLostWakeup`, `PanicFree`, `MemoryConserved` |
| `buf_live` | 2 processes, 3 calls, two blocks (of 2 and 1 fragments) read and read ahead, a third written, 3 fragments of memory | 150 000, no symmetry | `EveryCallReturns`, `AllReleased` |
| `buf_dup` | 2 writers, unequal buffers | violation | `UniqueBlock` fails, see below |
| `sem_ops` | 2 processes, a set of 2 semaphores, 1 undo structure, signals, premature returns, exits | 192 000 | `TypeOK`, `OwnSetOnly`, `UndoPool`, `UndoExact`, `SleepersCounted`, `NoMissedChance`, `RemovedReturns` |
| `sem_stale` | 2 processes, 1 semaphore, `kmem_alloc` sleeps | violation | `OwnSetOnly` fails |
| `sem_missed` | semop with operations -1, 0 on one semaphore | violation | `NoMissedChance` fails |
| `fifo_stream` | 2 writers, 1 reader; writes of 3 and 5, reads of 1 and 3, fifo of 4, buffers of 2 with a header, memory for 2; faults, signals | 504 000, symmetric in the writers | `TypeOK`, `Pointers`, `EndsCounted`, `NoLostWakeup`, `MemoryCounted`, `IsStream` |
| `fifo_select` | a writer, a reader, a process that reads or does both without delay; select for reading and for exceptions | 168 000, no symmetry | `NoLostWakeup`, `SelectorsKnown`, `HangupSeen` |
| `fifo_link` | a writer and a reader, fifo and buffer of 3, pointer of 2 bytes | violation | `Intact` fails |
| `statd` | 2 hosts, lockd with both procedures at one, another client at the other; state number up to 7, 3 lockds | 167 000, no symmetry | `TypeOK`, `NoHostForgotten`, `FreshState`, `RecordsOnDisk`, `NoticeReaches`, `EveryoneTold` |

What the properties say, and what they are for, is in the comment above each.

Bounds. Three buffers are the fewest with which a process can hold one (breada
holds two), another can be dirty and a third can be looked for; a two-fragment
block and its halves give every kind of overlap (equal, contained, at the end);
three processes let one wait for a buffer, one for the free list and one run.
In `buf_memory` the memory is one fragment more than the larger block needs, so
that `allocbuf` has to collect it from others. With less, clients that hold a
buffer while they ask for another can wait for one another for ever (two
processes in breada with two buffers; two readers of 2 fragments with 2
fragments of memory): the kernel relies on there being enough, and the bounds
do too. In `buf_live` each of two `breada`s may
read ahead the block that the other reads. They would wait for one another if the second
did not look with `incore` first: a process that sleeps for memory for its read-ahead buffer holds
the block that the other asks for (this is the mutant of `EveryCallReturns`).
`MaxCalls` bounds the liveness run, since an unbounded number of calls
would allow starvation of a single sleeper, which the code does not exclude
(wakeup is a broadcast and the winner is whoever runs first).

For the semaphores, one header used twice (`MaxSeq` = 1) is enough for an id to
become stale and its semaphores another set's; one undo structure for two
processes makes the pool run out; `SEMAEM` = 1 makes adjustments overflow;
`SEMVMX` = 2 makes values overflow. `MaxCnt` cuts off premature returns, each of
which counts a sleeper once more; the count is a 16-bit number in the code, and
that its wrap to 0 would hide a sleeper is listed as a hazard.

For the fifos, a write of 3 into a fifo of 4 in buffers of 2 is cut into chunks
wherever it starts, waits for room and spans buffers; a write of 5 never fits and goes
in pieces between which the other writer gets in; memory for two buffers (`PIPE_MNB` = 6,
a buffer is 2 and a pointer of 1) is less than what two full buffers and a partly read
one need, so that writers sleep for memory. Each run has one fifo; what they share, the memory,
is treated for any number of them by `MemoryExact` and `WakeupsKept`. That the writers of two
fifos may sleep for memory for ever, each with a part of what it needs, the code says itself
(598, "This could lead to deadlock!"), and no property here excludes it. Three processes are the fewest with a
collision of selectors and somebody to wake them.

For statd, a state number of 7 allows three restarts after the first one. One host
has two requests of lockd, which is where the list loses its prev pointers; the other
one has a client that comes and goes. The other client is kept away from lockd's
host: there `delete_mon` can lose entries of the wrong client, which is listed as a
hazard that no property covers. `DirEntries` is the number of hosts: with more hosts than one `getdirentries`
returns, `NoHostForgotten` does not hold (the theorem has the same hypothesis).
`MaxCount` bounds repeated requests, `MaxPid` restarts of lockd.

Symmetry is used for invariants, and for `IsStream`, which has no liveness part: of
processes, and of buffers where all have the same share of memory.

Deadlock is checked in all passing runs but `buf_live`, where the bound on
calls ends the run.

Fairness. `buf_live` assumes that a process that can run does so (weak fairness
of `KernelStep(p)`: the scheduler is preemptive at user level and the kernel
gives the CPU up at every sleep), that the disk ends its transfers (weak
fairness of `Biodone` for each buffer, the interrupt) and that a client ends what
it does with a buffer (weak fairness of `ClientStep(p)`; the file systems release
each buffer in the same system call). `sem_ops` assumes that a process in semop
that is not asleep gets the CPU (strong fairness of `KernelStep(p)`, strong
because the CPU is taken by others again and again; that is what the scheduler's
aging of priorities gives). `fifo_select` assumes
weak fairness of each process's steps in the kernel: it gets the CPU, `kmem_alloc` and
`uiomove` return. `statd` assumes that a statd that was started gets through
`statd_init` (weak fairness of `InitStep` where statd is not down; whether it is started again after it
dies is left open, and `EveryoneTold` says nothing where it stays down), and that a host that is tried again and
again is reached at last (strong fairness of `sm_try` with the host in the set that
answers; crashes are bounded by `MaxState`). No fairness is assumed of signals,
premature returns, faults, crashes or user level calls.

## Proofs

`BufferCacheProofs` proves, for every set of processes, buffers, vnodes and
requests, every cluster size and every initial distribution of memory:

* `TypeCorrect`: `Spec => []TypeOK`;
* `BusyLock`: `Spec => []BusyIsExclusive`;
* `WakeupsKept`: `Spec => []NoLostWakeup`.

The assumptions are `ConstantTypes` and `DistinctConstants` of `BufferCache`: the
requests are requests, sizes are positive, the placeholders are not members of the
sets they stand beside. No finiteness is assumed.

None of the three is inductive. That the buffer a process is about to release is
its own follows only from where it is in the code, and that `biodone` wakes the
right process only from which transfers are asynchronous. The invariant is

    IInv == TypeOK /\ PcInv /\ OwnInv /\ FlagInv /\ IoInv /\ SleepInv /\ NoLostWakeup

* `PcInv`: which of `bp`, `obp`, `wbp` are set at each program point, and which
  calls reach it;
* `OwnInv`: a buffer is named by at most one pointer, of one process; an owned
  buffer is busy and not asynchronous, and a busy buffer that is not asynchronous
  has an owner;
* `FlagInv`: busy if and only if on no free list; a busy asynchronous buffer is at
  the driver; what the driver has is busy and not done;
* `IoInv`: an owner that waits for its buffer waits for one the driver has, or that
  is done; nobody else's buffer is at the driver;
* `SleepInv`: who sleeps where: a sleeper's channel is what its program point
  says, and a process waiting for a transfer waits for its own buffer.

The argument goes by kinds of step rather than action by action, since the fifty
actions do only a few things to the invariant: they move a program counter
(`MoveStep`, `BranchStep`, `ReturnStep`, `EnterStep`), take a free buffer
(`AcquireStep`), release one (`ReleaseStep`, `BrelseStep`), hand one to the driver
asynchronously (`PushStep`) or synchronously (`StartStep`), change the identity
or size of an owned one (`RelabelStep`, `AllocStep`), or sleep. Each kind is a lemma
about `IInv`; one lemma per group of actions then shows each of them to be of its
kind. `BiodoneIInv` treats the interrupt. `NextIInv` puts them together, and
`BusyIsExclusive` is a consequence of `PcInv`, `OwnInv`, `FlagInv` and `IoInv`.

`SysVSemProofs` proves, for every set of processes and headers, every number of
semaphores, every list of operations and every limit, and under the hypothesis
`~AllocSleeps` (without it all three are false, see `sem_stale`):

* `NoSleeperForgotten`: `Spec => []SleepersCounted`;
* `OwnSet`: `Spec => []OwnSetOnly`;
* `UndoKept`: `Spec => []UndoPool`.

The assumption is `SemConstants`. The first two follow from the inductive invariant
`SInv`: types; the semaphores of a set that exists are semaphores (`SetsInv`); what a
process knows of its set at each point (`ProcInv`: in the middle of an attempt it has
the CPU and the set exists; after a sleep the set either exists, with the operations in
range, or has a later sequence number, so that a header used again is never taken for
it); and a sleeper sleeps on the count it stored, which is not 0 (`SleeperInv`). The
argument again goes by kinds of step: `Gentle` says that a change of counts and
channels wakes some and leaves the others counted; `Wakeup` and `Uncount` are gentle,
and a gentle step of one awake process in its own variables preserves `SInv`
(`LocalStep`). semget, IPC_RMID and falling asleep are treated on their own.
`UndoKept` needs `SInv` too (an adjustment is only entered for a set that exists) and
strengthens `UndoPool` by the range of the adjustments and the finiteness of each
structure's entries, which the counting of entries rests on.

Its second part proves, under the same hypothesis and with the same generality:

* `SemopAtomic`: `MCSpec => []UndoExact`;
* `ValuesInRange`: `Spec => []TypeOK`;
* `NoChanceMissed`: `Spec => []NoMissedChance`, where no list of operations names a
  semaphore twice (`Distinct`; run `sem_missed` shows what happens otherwise).

The difficulty of the first two is that semundo checks nothing: that it leads back to
the old values, and that it stays in range, depends on what semop did before. The
invariant keeps, for a process in the middle of an attempt, a trail: the values and
the undo entries there were before each of the operations done so far, one step
of the trail being what one operation does. semundo walks the trail back,
and its first element is what `UndoExact` asks for. Written with a trail the statement needs no sum over
the operations. The third rests on `WaitInv`: of each sleeper, some operation is impossible
at the present value of its semaphore and also at every value to which the semundo of a
process now in semop may bring it back (`Held`), because semundo wakes nobody. An
operation that changes a value so that a sleeper could go on wakes it (`Announced`). Where
no semaphore is named twice, an operation of the list does not change the value that
another one waits for, so that one impossible operation makes the whole list impossible.

`FifoProofs` proves, for every set of processes and fifos, every open mode, all sizes
of fifos, buffers, pointers, memory and requests, with faults, signals and select:

* `CountsExact`: `Spec => []EndsCounted`;
* `TransfersFit`: `Spec => []Pointers`;
* `SelectorsFound`: `Spec => []SelectorsKnown`.

The assumption is `FifoConstants`; that there are finitely many processes is needed
to count them. `EndsCounted` rests on `CallInv`: the types of what calls
use, `DescInv` (a process in a call has a descriptor, with the mode the call needs) and
`LockHeld` (a process in the middle of a transfer has the lock of its fifo, so that
there is at most one). `Pointers` is not inductive either: that a chunk fits follows
from what the transfer found out before it slept. `DataInv` adds `Transfer(p)`: while
`p` allocates and copies in, its bytes fit into the fifo; from `wcopy` on also into the
buffers; while it copies out, its bytes are there. A step of another process cannot
disturb this: it does not have the lock (`HeldAlone`), and a close that frees the
buffers is the last one (`LastClose`, from the exact counts), so that nobody is in a
transfer. The product `nbuf * PIPE_BSZ` is kept apart in `OneMoreBuffer`.
`SelectorsKnown` is inductive once `CallInv` gives the types: a process that replaces the
name in `fn_?sel` found its owner not asleep in select, so that whoever else is asleep
there is covered by the collision flag (`SelEntered`), and whoever is taken off is woken
(`SelWoken`).

`StatusMonitorProofs` proves, for every set of hosts and requests:

* `HostsRemembered`: `Spec => []NoHostForgotten`, under `DirectoriesFit` (finitely many
  hosts, no more than `DirEntries`);
* `NoticesFresh`: `Spec => []FreshState`;
* `TypesKept`: `Spec => []TypeOK`;
* `RecordsKept`: `Spec => []RecordsOnDisk`, and `NoticesReach`: `Spec => []NoticeReaches`,
  both under `ClientsApart`: lockd and the other client monitor different hosts.

The invariant of the first (`FileInv`) says where an owed host is in each phase: it is
never the one that was told and is not yet unlinked; while CURRENT is moved, all of
CURRENT is still to be moved; and after that an owed host is in BACKUP, where
`record_name` does not come. That of the second (`StateInv`) orders the numbers:
`past <= sent <= state` always, and while statd is up `LOCAL_STATE` is the number in
STATE, odd and larger than `past`.

The last three are about the list `monitor_q`. `ClientsApart` is needed: where the other
client asks for a host of lockd's, TLC refutes both properties, because the other client's
entry, behind one of lockd's, has no prev pointer, and its deletion makes `delete_mon` cut off
everything in front of it. `Firm` is what the hypothesis buys: beyond the head of the list, every
entry of the other client has its prev pointer, so that only lockd's own cancellations,
at its start, cut the list. `RecordInv`: a host with a count has its file in CURRENT.
`LockdInv` says of each phase of lockd's start which of its old entries may still be in the
list, and of a running lockd that its entries carry its pid and are counted, and that
everything it remembers to have asked for is there. What
`delete_mon`'s walk leaves (`Walk`, a recursive function over the positions of the list) is
shown by induction: `LeastNumber` is the least-number principle, which the library has
in a form without an operator parameter, `UpTo` the induction over `0 .. n` that follows from
it, `WalkIs` that the recursive function exists and satisfies its equation. `DeletedFacts` and
`DeletedSpares` say which entries the walk can only keep, `InsertedFacts` where `insert_mon` puts the
new one.

`BufferPanicProofs` proves `NoPanic`: `Spec => []PanicFree`, under the hypothesis
`ReadsWithin`: where the driver reports errors, no client reads more fragments of a
block than any request for it is written or read with. UFS keeps to it (`blksize` gives
a block one size at a time). The hypothesis is needed: with `IOErrors`, a
delayed write of one fragment of a block and a `bread` of two, TLC reaches a `bwrite` of
a header without a vnode. `brealloc` (378) clears `B_DONE` and keeps `B_DELWRI`,
the read fails, `brelse` (200) drops the vnode of a header that is still
`B_DELWRI`, and `getnewbuf` pushes it. The inductive invariant is `IInv` and
`PanicInv`. Every header is `Sane`: its data fit into its memory, and what is still to be
written has a vnode, data and no error, and is no shorter than anybody may read it. What
the driver has has a vnode and data; where it may fail, it never has a delayed write, since
a delayed write is done, or its owner is growing it for a write (`Growing`) and
will not read. Of a process, `CallBy` says which requests it serves at each point and
`HeldBy` that the buffer it holds carries the block of its request and, once `allocbuf` is
through, the size. `SaneKept`, `Frame` and `FrameOne` say what a step must leave alone to
preserve it; the actions are then grouped as in `BufferCacheProofs`.

The same module proves `MemoryKept`: `Spec => []MemoryConserved`, for finitely many fragments
in all (`FiniteMemory`) and with no hypothesis on the clients. The memory of all headers is a set, of pairs of
a header and a place in it, and its size the total: `ShareCut` says what cutting one share does
to it, and `SharesMoved`, by two cuts, that a move changes nothing. The invariant adds that a header on
BQ_EMPTY has no memory (`EmptyInv`): `allocbuf` overwrites the size of such a header when
it hands it what a shrinking buffer has too much, and that nothing is lost there is not
checked in the code. That source and destination are different headers comes from `OwnInv`. Every other step
`Keeps` the memory of the one header it changes.

`BufferUniqueProofs` proves `BlocksUnique`: `Spec => []UniqueBlock`, under the hypothesis
`Roomy`: every header's share of the memory (`BufSize0`) holds, rounded up to clusters,
everything a client asks for. Without a hypothesis the property is false (`buf_dup`). A
default Sun-3 satisfies this one: a cluster is 8192 bytes there (`sun3/param.h`: NBPG 8192, CLSIZE 1),
which is MAXBSIZE (`h/param.h`), and `sun3/machdep.c:483` makes nbuf equal to bufpages, so
that `binit` gives each header one cluster. A Sun-2, whose clusters are shorter, or a kernel
configured with more headers than pages, does not. `getblk` does not look at the chain
again after `getnewbuf` has slept, and `brealloc`'s search for overlaps, which follows, passes over
a header whose `b_bcount` is still 0. What saves the property is that from that search to the
end of `allocbuf`, where `b_bcount` is set, nobody else runs, as long as `allocbuf` has no
memory to fetch from other headers. The inductive invariant is `IInv`, `PanicInv` and `UniqueInv`:
every header keeps its share; one on BQ_EMPTY has none (`EmptyInv`); the blocks are unique;
and of each process what its arguments are (`ArgsOf`), that what it holds carries the
block of its request and that it is in `getnewbuf` for a header, never for memory (`HandOf`),
and that at `allocbuf` it has the CPU and no other valid buffer overlaps its block (`Searched`).
A step that maps nothing more (`AllKept`) preserves all that concerns headers; the few that do
are treated one by one.

`BufferDataProofs` proves that the data are right, under the hypotheses `Roomy` and `InFile` (what
clients read is on the disk at the start):

* `CurrentReads`: `Spec /\ []WholeReads => []ReadsCurrent`;
* `WritesKept`: `Spec /\ []WholeReads => []NoLostWrite`;
* `FlushesReach`: `Spec /\ []WholeReads => BlkflushFlushes`;
* `ReadsWhole`: `Spec => []WholeReads`, where `ReadsNoMore`: no block is read at a larger size than
  it is read or written with elsewhere;
* `DataSafe`: the three properties, with no temporal hypothesis, where `ReadsNoMore`.

`Roomy` is needed as for `BlocksUnique`: two headers with one block lose writes. `WholeReads` says
that a read which finds a delayed write of its block does not ask for more than that
write has. Nothing in `vfs_bio.c` ensures it, and it is needed: with the bounds of `buf_uniform`, but one
fragment written and two read, TLC refutes `ReadsCurrent` and `NoLostWrite` in 16 states.
`brealloc` (378) clears `B_DONE` of the dirty buffer it makes longer, and `bread` then reads the
disk over what was never written. The file system keeps to it: it computes the size
of a block from the inode it has locked (`blksize`, used at `ufs_bmap.c:51`, `ufs_bmap.c:144` and
`ufs_vnodeops.c:199`), and grows a block through `realloccg`, which reads it at the old size. `ReadsNoMore`,
a condition on the constants, is a simple way to meet it; the runs `buf_uniform` and
`buf_readahead`, which check the three properties, satisfy all the hypotheses.

The inductive invariant (`AllInv`) is `IInv`, `PanicInv`, `UniqueInv` and `DataInv`. `DataInv` consists of
`NoLostWrite` itself, of what the flags of a buffer say of its memory (`BufData`) and of what a process may
rely on (`ProcData`). A dirty buffer is valid, is not with the driver, and is done or
being made longer by a writer (`Growing`). One that is done has the last values, except while `allocbuf` has
still to cut it (`Cut`). One that is being read will have them, since then the disk has them: the last value
of a fragment is on the disk or in a buffer that maps the fragment and is `Pending`, and that
can only be this buffer. A process between the search for overlaps and the end of `allocbuf` never cuts a
dirty buffer; what `realloccg` has read stays in its buffer while `brealloc` makes it longer
(`Regrown`). Since the driver never has a dirty buffer, `CleanIo` follows, which is all that
`NextPanic` asks for: `PanicInv` is inductive here without `ReadsWithin`. Steps that concern
neither memory nor flags go by frame lemmas (`NoLostFrame`, `BufFrame`, `ProcFrame`, and
`DataStill` and `DataOne`, for a step of no or one buffer); `Alone` is what `UniqueBlock` gives: no other
valid buffer has a fragment of this one.

The second part of `FifoProofs` proves, for everything the first covers:

* `WakeupsKept`: `Spec => []NoLostWakeup`;
* `MemoryExact`: `Spec => []MemoryCounted`;
* `TypesKept`: `Spec => []TypeOK`.

`NoLostWakeup` says nothing of a fifo whose lock is held, so it is not inductive. `WakeInv`
does: who sleeps for data or for room does so on the channel of its program point, with the
flag (`RBLK`, `WBLK`) set that makes the other side wake it, and what it waits for is not
there, or the process that has just provided it is still copying, with the lock
(`Busy`), and will wake it at the end of the copy. `Directions` (only writers write) makes
the closes that wake the other side the right ones. `MemInv` says that the memory
reserved is that of the fifos' buffers and, for each process asleep in `kmem_alloc`, of the one
it has asked for; the sum is the cardinality of a set (`Buffers`) and changes
by one element at a time.

`FifoStreamProofs` proves the refinement:

* `FifoIsStream`: `Spec => IsStream`, where `~LinkInData`.

The hypothesis says that `FIFOBUF` is not `FIFOBSZ`, so that a buffer has a header for its
link. It is needed: with the link over the data bytes are destroyed, as run `fifo_link`
shows. Two facts carry the proof beside those of `FifoProofs`.
`StreamInv` says that who has a lock is in a transfer on that fifo (`Owned`), that a write
of at most `PIPE_BUF` bytes is one piece (`Whole`), and that what is in of it are the last
bytes of the fifo, in order (`Laid`). `View` says what the stream shows: a `Window` of the
cells from `fn_rptr` on, without what the one holder of the lock hides. `View` follows from
the invariants; what remains is one lemma for each step: which cells a copy, a new buffer or a drained
one changes (`StoredCells`, `GrownCells`, `TailCells`, arithmetic on quotient and remainder
by `PIPE_BSZ`), and how windows are joined and cut. A copy that fails in the middle of a
small write makes visible what is in: this is the `Faults` of `ByteStream`.

Model-checked only, and why:

* liveness, which is out of the prover's reach, as is `ENABLED`;
* that the hypotheses of the theorems are needed, where the paragraphs above say so: these are
  counterexamples TLC finds, in the runs expected to fail (`buf_dup`, `sem_stale`, `sem_missed`,
  `fifo_link`) or with changed bounds.

## Disagreements found

1. `buf_dup`. `brealloc` says (`vfs_bio.c:386`) that "A disk block must be mapped by
   at most one buffer at any point in time". `getblk` looks the block up, does not
   find it, and calls `getnewbuf`, which may sleep; it does not look again.
   `brealloc`'s search for overlaps, which comes later, passes over headers whose
   `b_bcount` is still 0, which is what a second process's new buffer has while its
   `allocbuf` sleeps for memory. Two buffers then carry one block.
2. `sem_stale`. semop looks its id up, then calls `kmem_alloc` and `copyin`, which
   may sleep, and looks it up again only after the first sleep of its own loop. The
   set can be removed, and its semaphores be another's, in between.
3. `sem_missed`. A zero operation sleeps on `semzcnt`, which is woken only when a
   value becomes exactly 0. When an operation before it in the same call lowers the
   same semaphore, the value to wait for is another one, and nobody wakes the sleeper
   when it comes.

4. `fifo_link`. `fifo.h:14` says "When FIFOBUF == FIFOBSZ, a single buffer is used for
   each fifo", and lays the link to the next buffer over the data on the strength of
   that. `fifo_rdwr` appends at `fn_wptr`, which counts from the start of the first
   buffer, so after a partial read it needs a second buffer although the fifo is not
   full: `fn_bufend->fb_next = bp` then destroys unread bytes. The shipped
   configuration has FIFOBUF = FIFOBSZ = 4096.

Two lesser ones, not checked by a run: the comment on `blkflush` (500) promises that
no part of the block remains in core, while the code only writes what is dirty;
`BlkflushFlushes` states what the code does. And the comment on GETNCNT, above.

## Limits

Not modelled: what the inventory lists and `PROJECT.json` marks `not_modelled`.
Within the modelled components, the parts named as left out above. A data fault (a
disk that acknowledges a write it did not do) is outside the model: after an I/O
error the contents of the block are not claimed.

## Plan

In this order; each module with its MC module, its runs and its mutants.

1. `BufferCache`, `SysVSem` and their proof modules: done, as above.
2. `Fifo`, `ByteStream`, `FifoProofs`, `FifoStreamProofs`: done, as above.
3. `StatusMonitor`, `StatusMonitorProofs`: done, as above.
4. `LockManager` (`etc/rpc.lockd`), composed with `StatusMonitor` and a network that loses
   and duplicates: exclusion, grant against cancel, reclaim in the grace period.
5. `BlockStore`: what the buffer cache promises (the last write of each fragment is
   what a read returns), and `BufferCache` shown to implement it where
   `UniqueBlock` holds; `binval` with the order unmount uses.
6. `SleepQueue` (`kern_synch.c`), System V messages, callouts, resource maps, name
   cache, as they fit.

Theorems to come: that `BufferCache` implements `BlockStore`, from `CurrentReads` and `WritesKept`;
exclusion for the lock manager.

## How to run

In this directory:

    tlc -workers 2 -config BufUniform.cfg MCBufferCache
    tlc -workers 2 -config SemOps.cfg MCSysVSem
    tlc -workers 2 -config FifoStream.cfg MCFifo
    tlc -workers 2 -config Statd.cfg MCStatusMonitor
    tlapm BufferCacheProofs.tla
    tlapm BufferPanicProofs.tla
    tlapm BufferUniqueProofs.tla
    tlapm BufferDataProofs.tla
    tlapm SysVSemProofs.tla
    tlapm FifoProofs.tla
    tlapm FifoStreamProofs.tla
    tlapm StatusMonitorProofs.tla

`PROJECT.json` gives module, configuration and expected outcome of every run.
