SPECIFICATION FairSpec
CONSTANTS
  MaxRequests = 3
  Buffer = 1
INVARIANTS AnswersInOrder RequestsBeforeClose
PROPERTIES RequestsAnswered ServerEnds
