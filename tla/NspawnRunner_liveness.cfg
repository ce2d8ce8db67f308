CONSTANTS
  Jobs = {j1}
  Nil = Nil
  Output = {"stdout"}
  MaxStops = 2
SPECIFICATION FairSpec
PROPERTIES
  CallReturns
  ExitIsNoticed
CHECK_DEADLOCK FALSE
