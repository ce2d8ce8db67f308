CONSTANTS
  Jobs = {j1, j2}
  Conns = {c1, c2}
  Nil = Nil
  StartTimes = {0}
  Five = 1
  MaxWire = 1
SPECIFICATION Spec
SYMMETRY Perms
INVARIANTS
  ActiveConsistent
  OneJobAtATime
  StartedAtMostOnce
  NoRunnerNoJobs
  WorkConserving
  ReportsHaveClause
CONSTANT MaxMail = 2
