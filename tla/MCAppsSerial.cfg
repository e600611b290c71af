SPECIFICATION FairSpec
CONSTANTS
  Apps = {a1}
  Docs = {d1, d2}
  Workers = {w1}
  a1 = a1
  d1 = d1
  d2 = d2
  w1 = w1
  MaxRequests = 4
  MaxFaults = 0
  MaxRestarts = 1
INVARIANTS
  ClientUpToDate
PROPERTIES
  RefinesJourney
  CompleteIsDecided
CHECK_DEADLOCK FALSE
