CONSTANTS
  Names = {s1, s2, s3}
  Catalogs <- Small
SPECIFICATION FairSpec
INVARIANTS OrderRespects FailureExplained
PROPERTIES RunRespects DefaultsAsWanted CallsEnd
CHECK_DEADLOCK FALSE
