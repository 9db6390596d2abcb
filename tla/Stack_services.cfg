CONSTANTS
  Services <- MCServices
  Resources <- MCResources
  Kind <- MCKind
  Needs <- MCNeeds
  Parts <- MCParts
  Faulty = {}
  Unstable = {}
  Commands = {"gdev"}
  Killable = {}
  Options <- MCOptions
SPECIFICATION FairSpec
PROPERTIES StartSucceeds CommandsEnd
CHECK_DEADLOCK FALSE
