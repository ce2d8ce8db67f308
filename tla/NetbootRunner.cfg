CONSTANTS
  Jobs = {j1, j2}
  Nil = Nil
  MaxStops = 2
SPECIFICATION FairSpec
INVARIANTS
  FinishedIsReleased
PROPERTIES
  ImplementsRunner
  CallReturns
CHECK_DEADLOCK FALSE
