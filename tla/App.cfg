\* A process may end, and an app has as many commands as it is given.
SPECIFICATION Spec
CHECK_DEADLOCK FALSE
CONSTANTS
  Alphabetical <- MCAlphabetical
  Scenarios <- MCScenarios
  Procs = {"p", "q"}
  Clients = {"p", "q"}
  Services = {"svc1", "svc2", "nosuch", "ent-blog"}
  Inodes = {"i", "j", "k", "l"}
  MaxCerts = 2
INVARIANTS StartupComplete ModesAsSet BuiltBeforeStart SetUpSuffices
