CONSTANTS
  MaxStarts = 2
SPECIFICATION FairSpec
INVARIANTS
  AnswersMatch
PROPERTIES
  RequestReturns
  ShutdownEnds
  PuppetEnds
CHECK_DEADLOCK FALSE
