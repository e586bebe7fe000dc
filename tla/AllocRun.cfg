SPECIFICATION MCSpec
CONSTANTS
  NoId = NoId
  NoReg = NoReg
  Ids <- MCIds
  Positions <- MCPositions
  Junk = Junk
  Regs = {0, 1}
  Classes = {"int"}
  ClassOf <- MCClassOf
  Allocatable = {0, 1}
  ArgRegs <- InRegs
  Scratch <- MCScratch
  SlotBase = 100
  MaxEdges = 4
  Frame = Frame
  None = None
  Pending = Pending
  Allocations <- Tried
INVARIANTS LiveHomes ArrivalsApart HandsOverWellFormed AcceptsItsOwn
PROPERTIES RunsAsMeant
CHECK_DEADLOCK FALSE
