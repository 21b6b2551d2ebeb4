SPECIFICATION Spec
CONSTANTS
  p1 = p1
  p2 = p2
  p3 = p3
  b1 = b1
  b2 = b2
  b3 = b3
  v1 = v1
  Proc = {p1, p2}
  Buf = {b1, b2, b3}
  Vnode = {v1}
  BlkNo <- Frags2
  BufSize0 <- TwoSizes
  CL = 2
  ReadReqs <- Block01
  WriteReqs <- Block11
  RaReqs <- Block11
  FlushReqs <- None
  EblkSizes <- None
  GrowBy <- One
  FlushVnodes <- None
  InvalVnodes <- AllVnodes
  RelFlags <- NoFlags
  WriteFlags <- AsyncNocache
  IOErrors = FALSE
  NoProc = NoProc
  NoBuf = NoBuf
  NoVnode = NoVnode
  NoChan = NoChan
  FreeList = FreeList
SYMMETRY SymAll
INVARIANTS
  BusyIsExclusive
  UniqueBlock
  ReadsCurrent
  NoLostWrite
