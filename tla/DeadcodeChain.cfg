SPECIFICATION MCSpec
CONSTANTS
  Syms <- MCSyms
  NoSym = NoSym
  Sigs <- MCSigs
  NoSig = NoSig
  Names <- MCSigs
  NameOf <- MCName
  Exported = {"Put"}
  MainTasks <- MCMain
  RuntimeTasks <- MCRuntime
  NoWalk = NoWalk
  NoObjects = NoObjects
  Starts <- MCStarts
  Builtins <- MCBuiltins
INVARIANTS ChainNamesCause
CHECK_DEADLOCK FALSE
