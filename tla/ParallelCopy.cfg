SPECIFICATION MCSpec
CONSTANTS
  Locs <- MCLocs
  Classes = {"int", "float"}
  Temp <- MCTemp
  NoLoc = NoLoc
  Remat = Remat
INVARIANTS NeverFails Economical
PROPERTIES AtomicSpec
CHECK_DEADLOCK FALSE
