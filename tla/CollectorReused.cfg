SPECIFICATION Spec
CONSTANTS
  NoId = NoId
  NoReg = NoReg
  Ids <- MCIds
  Positions <- MCPositions
  Unknown = Unknown
  PtrSize = 2
  StackSmall = 10
  StackBig = 16
  Space = 128
  Guard = 20
  Entries <- MCEntries
  Peers <- MCPeers
  GrowBy = 32
  Programs <- Reusing
  Inputs <- ReusingInput
  Heap = {1, 2, 3}
  Alive <- List
  BufSize = 2
  Shapes <- MCShapes
  MaxGen = 1
  AsyncInBarrier = FALSE
INVARIANT NoDangling
CHECK_DEADLOCK FALSE
