SPECIFICATION FairSpec
CONSTANTS
    h1 = h1
    h2 = h2
    Host = {h1, h2}
    LockdReqs <- Both
    OtherReqs <- OtherAtH2
    DirEntries = 2
    MaxState = 7
    MaxPid = 3
    MaxCount = 2
    NoReq = NoReq
    NoHost = NoHost
INVARIANTS TypeOK NoHostForgotten FreshState RecordsOnDisk NoticeReaches
PROPERTY EveryoneTold
