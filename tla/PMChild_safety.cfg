CONSTANTS
  Defs <- AllDefs
  MaxInits = 2
  Procs = {p1, p2}
  NoProc = NoProc
  MaxProbes = 1
SPECIFICATION FairSpec
INVARIANTS ActiveMeansProcess SingleProcess InitsBeforeMain
PROPERTIES LifecycleSpec StopCompletes CrashIsRetried HealthKeepsBeingChecked
CHECK_DEADLOCK FALSE
