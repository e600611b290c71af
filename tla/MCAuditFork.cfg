SPECIFICATION Spec
CONSTANTS
  Writers = {w1, w2}
  w1 = w1
  w2 = w2
  MaxRecords = 2
  MaxFaults = 0
  MaxEdits = 0
  MaxRestarts = 0
INVARIANTS
  NoAlarmWithoutTampering
CHECK_DEADLOCK FALSE
