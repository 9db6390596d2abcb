CONSTANTS
  Defs <- FlagDefs
  MaxInits = 1
  Procs = {p1, p2}
  NoProc = NoProc
  MaxProbes = 1
SPECIFICATION Spec
INVARIANTS NeverPanics
CHECK_DEADLOCK FALSE
