SPECIFICATION FairSpec
CONSTANTS
  Segments = {s1}
  s1 = s1
  NoSuffix = NoSuffix
  Applications = {a1}
  a1 = a1
  Profiles <- MCProfiles
  Workers = {"w1", "w2"}
  MaxRequests = 2
INVARIANTS
  TypeOK
  EscalatedIsReviewed
  ApprovalIsForThisFiling
  LargerNeverSofter
PROPERTIES
  QueueIsRegister
  QueueDrains
CHECK_DEADLOCK FALSE
