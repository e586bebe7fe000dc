SPECIFICATION MCSpec
CONSTANTS
  Syms <- MCSyms
  NoSym = NoSym
  Sigs <- MCSigs
  NoSig = NoSig
  Names <- MCSigs
  NameOf <- MCName
  Exported = {"Put"}
  MainTasks <- MCMain
  RuntimeTasks <- MCRuntime
  NoWalk = NoWalk
  NoObjects = NoObjects
  Starts <- MCStarts
  Builtins <- MCBuiltins
INVARIANTS ListsExact KeepsWhatIsUsed KeepsExactly CountExact CallsLand OneMeaning
PROPERTIES Ends
CHECK_DEADLOCK FALSE
