SPECIFICATION Spec
CONSTANTS
  Writers = {w1, w2}
  w1 = w1
  w2 = w2
  MaxRecords = 4
  MaxFaults = 1
  MaxEdits = 1
  MaxRestarts = 2
SYMMETRY Symmetry
INVARIANTS
  TypeOK
  UniqueIds
  LinksBackward
  RestartsContinueTrail
  ChainBreaksForCause
  AlarmNamesFirstForgery
CHECK_DEADLOCK FALSE
