CONSTANTS
  Kids = {k1}
  Names = {n1}
  Defs <- Mixed
  MaxInits = 1
  Ops <- MCOps
  Requests = {r1, r2}
  Impatient = TRUE
  Main = Main
  NoKid = NoKid
  NoThread = NoThread
SPECIFICATION FairSpec
PROPERTIES RequestsEnd DrainEnds
CHECK_DEADLOCK FALSE
