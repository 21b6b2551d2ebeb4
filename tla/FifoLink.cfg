SPECIFICATION Spec
CONSTANTS
    Proc = {w1, r1}
    w1 = w1
    w2 = w2
    r1 = r1
    NoProc = NoProc
    Node = {f1}
    Watched = f1
    Modes <- Roles
    Selects = {}
    WriteSizes = {1, 2}
    ReadSizes = {1}
    PIPE_BUF = 3
    PIPE_BSZ = 3
    PIPE_MNB = 30
    PTR = 2
    Faults = FALSE
    Signals = FALSE
    NoFd = NoFd
    NoChan = NoChan
    Garbage = Garbage
    Link = Link
INVARIANT Intact
