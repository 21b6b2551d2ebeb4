SPECIFICATION MCSpec
CONSTANTS
  p1 = p1
  p2 = p2
  s1 = s1
  u1 = u1
  Proc = {p1, p2}
  Slot = {s1}
  SEMMNS = 1
  Undo = {u1}
  SEMVMX = 2
  SEMAEM = 1
  SEMUME = 1
  SetSizes <- One
  OpLists <- DownToZeroOps
  SetVals <- Two
  MaxSeq = 1
  MaxCnt = 2
  AllocSleeps = FALSE
  NoProc = NoProc
  NoUndo = NoUndo
  NoChan = NoChan
INVARIANT NoMissedChance
