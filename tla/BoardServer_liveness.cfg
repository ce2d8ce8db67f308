CONSTANTS
  Jobs = {j1, j2}
  Conns = {c1}
  Nil = Nil
  StartTimes <- MCStartTimes
  Five = 2
  MaxWire = 1
  MaxMail = 1
SPECIFICATION FairSpec
PROPERTIES
  ImplementsLifecycle
  StartIsResolved
