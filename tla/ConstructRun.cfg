SPECIFICATION MCSpec
CONSTANTS
  NoId = NoId
  NoReg = NoReg
  NoProgram = NoProgram
  Ids <- MCIds
  Positions <- MCPositions
INVARIANTS RunsAlike VerifierAccepts MinimalPhis DominatorsExact ChainRepaired NotesHold
PROPERTIES LivenessFound Settles
CHECK_DEADLOCK FALSE
