SPECIFICATION FairSpec
CONSTANTS
  p1 = p1
  p2 = p2
  s1 = s1
  u1 = u1
  Proc = {p1, p2}
  Slot = {s1}
  SEMMNS = 2
  Undo = {u1}
  SEMVMX = 2
  SEMAEM = 1
  SEMUME = 2
  SetSizes <- Two
  OpLists <- PairOps
  SetVals <- OneThree
  MaxSeq = 1
  MaxCnt = 2
  AllocSleeps = FALSE
  NoProc = NoProc
  NoUndo = NoUndo
  NoChan = NoChan
INVARIANTS
  TypeOK
  OwnSetOnly
  UndoPool
  UndoExact
  SleepersCounted
  NoMissedChance
PROPERTY RemovedReturns
