CONSTANTS
  t1 = t1
  t2 = t2
  o1 = o1
  Empty = Empty
  Actions = {a1}
  Outputs = {o1, Empty}
  Threads = {t1, t2}
  Setups <- SomeSetups
  NoOutput = NoOutput
SPECIFICATION Spec
INVARIANTS EntryResolves
PROPERTIES MapSpec
SYMMETRY Symmetric
CHECK_DEADLOCK FALSE
