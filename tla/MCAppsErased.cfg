SPECIFICATION Spec
CONSTANTS
  Apps = {a1}
  Docs = {d1, d2}
  Workers = {w1, w2}
  a1 = a1
  d1 = d1
  d2 = d2
  w1 = w1
  w2 = w2
  MaxRequests = 3
  MaxFaults = 0
  MaxRestarts = 0
PROPERTIES
  DecisionNeverErased
CHECK_DEADLOCK FALSE
