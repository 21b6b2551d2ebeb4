SPECIFICATION Spec
CONSTANTS
    Proc = {w1, w2, r1}
    w1 = w1
    w2 = w2
    r1 = r1
    NoProc = NoProc
    Node = {f1}
    Watched = f1
    Modes <- Roles
    Selects = {}
    WriteSizes = {3, 5}
    ReadSizes = {1, 3}
    PIPE_BUF = 4
    PIPE_BSZ = 2
    PIPE_MNB = 6
    PTR = 1
    Faults = TRUE
    Signals = TRUE
    NoFd = NoFd
    NoChan = NoChan
    Garbage = Garbage
    Link = Link
SYMMETRY Swap
INVARIANTS TypeOK Pointers EndsCounted NoLostWakeup MemoryCounted
PROPERTY IsStream
