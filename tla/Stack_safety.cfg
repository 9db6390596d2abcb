CONSTANTS
  Services <- MCServices
  Resources = {"data", "db", "web", "local"}
  Kind <- MCKind
  Needs <- MCNeeds
  Parts <- MCParts
  Faulty = {"web", "local"}
  Unstable = {"web"}
  Commands = {"start", "stop"}
  Killable = {"start", "stop"}
  Options <- MCOptions
SPECIFICATION FairSpec
INVARIANTS StopReportsAll
PROPERTIES EndsAsAsked DependentsFirst CommandsEnd
CHECK_DEADLOCK FALSE
