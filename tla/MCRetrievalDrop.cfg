SPECIFICATION Spec
CONSTANTS
  Docs = {d1, d2}
  Textless = {}
  Workers = {w1}
  d1 = d1
  d2 = d2
  w1 = w1
  MaxRequests = 2
  MaxEvaluations = 0
  MaxFaults = 0
  ChunkSize = 5
  ChunkOverlap = 1
  MaxLength = 1
INVARIANTS
  UploadsStayFound
CHECK_DEADLOCK FALSE
