SPECIFICATION MCSpec
CONSTANTS
  Regs <- MCRegs
  Slots <- MCSlots
  Float <- MCFloat
  IntScratch = 16
  FloatScratch = 30
  NoLoc = NoLoc
  Remat = Remat
INVARIANTS NeverFails
PROPERTIES AtomicSpec
CHECK_DEADLOCK FALSE
