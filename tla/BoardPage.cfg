SPECIFICATION Spec
CONSTANTS
  Jobs = {j1, j2}
  MaxMail = 1
  MaxInbox = 1
  MaxLog = 3
SYMMETRY Perms
INVARIANTS
  TypeOK
  PageIsCurrent
  NoJobVanishes
  LogIsComplete
CHECK_DEADLOCK FALSE
