SPECIFICATION Spec
CONSTANTS
  p1 = p1
  p2 = p2
  p3 = p3
  b1 = b1
  b2 = b2
  b3 = b3
  v1 = v1
  Proc = {p1, p2}
  Buf = {b1, b2, b3}
  Vnode = {v1}
  BlkNo <- Frags4
  BufSize0 <- UnitSizes
  CL = 1
  ReadReqs <- Block02
  WriteReqs <- TwoOthers
  RaReqs <- None
  FlushReqs <- None
  EblkSizes <- One
  GrowBy <- None
  FlushVnodes <- None
  InvalVnodes <- None
  RelFlags <- NoFlags
  WriteFlags <- AsyncOnly
  IOErrors = TRUE
  NoProc = NoProc
  NoBuf = NoBuf
  NoVnode = NoVnode
  NoChan = NoChan
  FreeList = FreeList
SYMMETRY SymAll
INVARIANTS
  TypeOK
  NoLostWakeup
  PanicFree
  MemoryConserved
