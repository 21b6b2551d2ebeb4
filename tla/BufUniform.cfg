SPECIFICATION Spec
CONSTANTS
  p1 = p1
  p2 = p2
  p3 = p3
  b1 = b1
  b2 = b2
  b3 = b3
  v1 = v1
  Proc = {p1, p2, p3}
  Buf = {b1, b2, b3}
  Vnode = {v1}
  BlkNo <- Frags2
  BufSize0 <- TwoSizes
  CL = 2
  ReadReqs <- BothHalves
  WriteReqs <- Block02
  RaReqs <- None
  FlushReqs <- Block02
  EblkSizes <- None
  GrowBy <- None
  FlushVnodes <- AllVnodes
  InvalVnodes <- None
  RelFlags <- NoFlags
  WriteFlags <- SyncOrAged
  IOErrors = FALSE
  NoProc = NoProc
  NoBuf = NoBuf
  NoVnode = NoVnode
  NoChan = NoChan
  FreeList = FreeList
SYMMETRY SymAll
INVARIANTS
  BusyIsExclusive
  NoLostWakeup
  PanicFree
  UniqueBlock
  ReadsCurrent
  NoLostWrite
PROPERTY BlkflushFlushes
