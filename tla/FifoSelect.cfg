SPECIFICATION FairSpec
CONSTANTS
    Proc = {w1, w2, r1}
    w1 = w1
    w2 = w2
    r1 = r1
    NoProc = NoProc
    Node = {f1}
    Watched = f1
    Modes <- MixedRoles
    Selects = {"selR", "selX"}
    WriteSizes = {2}
    ReadSizes = {2}
    PIPE_BUF = 2
    PIPE_BSZ = 1
    PIPE_MNB = 3
    PTR = 1
    Faults = FALSE
    Signals = TRUE
    NoFd = NoFd
    NoChan = NoChan
    Garbage = Garbage
    Link = Link
INVARIANTS NoLostWakeup SelectorsKnown
PROPERTY HangupSeen
