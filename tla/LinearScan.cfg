SPECIFICATION MCSpec
CONSTANTS
  Ids <- MCIds
  Regs = {0, 1, 2}
  Classes = {"int"}
  ClassOf <- MCClassOf
  Allocatable = {0, 1}
  Positions <- MCPositions
  NoReg = NoReg
  NoId = NoId
  Frame = Frame
  None = None
INVARIANTS NoSharedRegister SpillsOnlyUnderPressure
PROPERTIES EvictionsPay Ends
CHECK_DEADLOCK FALSE
