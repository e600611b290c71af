SPECIFICATION Spec
CONSTANTS
  Docs = {d1, d2, d3}
  Textless = {d3}
  Workers = {w1, w2}
  d1 = d1
  d2 = d2
  d3 = d3
  w1 = w1
  w2 = w2
  MaxRequests = 4
  MaxEvaluations = 1
  MaxFaults = 1
  ChunkSize = 5
  ChunkOverlap = 1
  MaxLength = 12
SYMMETRY Symmetry
INVARIANTS
  TypeOK
  RowsWithinIds
  SearchIsComplete
  CutsKeepText
CHECK_DEADLOCK FALSE
