CONSTANTS
  t1 = t1
  t2 = t2
  o1 = o1
  Empty = Empty
  Actions = {a1}
  Outputs = {o1, Empty}
  Threads = {t1, t2}
  Setups <- Moving
  NoOutput = NoOutput
SPECIFICATION Spec
INVARIANTS PutsSucceed
CHECK_DEADLOCK FALSE
