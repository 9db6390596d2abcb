CONSTANTS
  Kids = {k1, k2}
  Names = {n1}
  Child = n1
  Defs <- Plain
  MaxInits = 1
  Ops <- MCOps
  Errands <- StartAndStop
  Requests = {c1, c2}
  Impatient = TRUE
  Main = Main
  NoKid = NoKid
  NoThread = NoThread
SPECIFICATION CSpec
INVARIANTS ExitLeavesNothing
PROPERTIES Replaced StartIsSynced PutIsThere
VIEW Essence
SYMMETRY Symmetric
CHECK_DEADLOCK FALSE
