SPECIFICATION LiveSpec
CONSTANTS
  MaxCalls = 3
  p1 = p1
  p2 = p2
  p3 = p3
  b1 = b1
  b2 = b2
  b3 = b3
  v1 = v1
  Proc = {p1, p2}
  Buf = {b1, b2, b3}
  Vnode = {v1}
  BlkNo <- Frags4
  BufSize0 <- UnitSizes
  CL = 1
  ReadReqs <- Crossed
  WriteReqs <- Block01
  RaReqs <- Crossed
  FlushReqs <- None
  EblkSizes <- None
  GrowBy <- None
  FlushVnodes <- None
  InvalVnodes <- None
  RelFlags <- NoFlags
  WriteFlags <- AsyncOnly
  IOErrors = FALSE
  NoProc = NoProc
  NoBuf = NoBuf
  NoVnode = NoVnode
  NoChan = NoChan
  FreeList = FreeList
PROPERTIES
  EveryCallReturns
  AllReleased
CHECK_DEADLOCK FALSE
