CONSTANTS
  Jobs = {j1, j2}
  Conns = {c1, c2}
  Nil = Nil
  StartTimes = {0}
  Five = 1
  MaxWire = 1
  MaxMail = 1
  MaxInbox = 1
SPECIFICATION TreadmillSpec
SYMMETRY Perms
INVARIANTS
  TreadmillTypeOK
  FinishedIsFree
  BelievedIsReal
PROPERTIES
  ImplementsBoard
  ImplementsRunner
