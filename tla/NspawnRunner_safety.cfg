CONSTANTS
  Jobs = {j1, j2}
  Nil = Nil
  Output = {}
  MaxStops = 1
SPECIFICATION Spec
SYMMETRY Perms
INVARIANTS
  OneJobRuns
  UnmountedIsUnused
  FinishedIsReleased
  AnswersMatch
PROPERTIES
  ImplementsRunner
CHECK_DEADLOCK FALSE
