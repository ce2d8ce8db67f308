CONSTANTS
  Jobs = {j1}
  Nil = Nil
  Output = {"stdout"}
  MaxStops = 1
SPECIFICATION FairSpec
PROPERTIES
  StopReturns
CHECK_DEADLOCK FALSE
