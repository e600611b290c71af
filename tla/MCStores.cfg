SPECIFICATION Spec
CONSTANTS
  DataSets <- MCData
  Clients = {"c1", "c2"}
  Documents = {"d1", "d2"}
  Excerpts = {"e1"}
  Policies = {"p1"}
  Regulations = {"r1"}
  Entities = {"o1"}
  Countries = {"GB", "US"}
  Uploads = {"u1"}
  HighRisk = {"o1"}
  None = "none"
  Pods = {"pod1", "pod2"}
  Script = "script"
  MaxStarts = 3
  MaxStops = 1
  MaxUploads = 1
  Spellings = {"ann", "Ann", "bob"}
  KeyOf <- MCKeyOf
  Companies = {"x", "y"}
  Passwords = {"p", "q"}
  Replicas = {"pod1", "pod2"}
  NoAccount = NoAccount
  MaxApplications = 3
  MaxRaises = 1
  MaxKills = 1
  Questions = {"q1", "q2"}
  Evaluators = {"pod1", "pod2"}
  KeepPoints = 2
  MaxRatings = 2
  MaxRuns = 3
  MaxMissed = 1
  MaxRestarts = 1
  Contents = {"x", "y"}
  Hosts = {"p1", "p2"}
  MaxServed = 4
  MaxOutages = 2
  MaxReboots = 1
INVARIANTS
  TypesOK
  BackendsAgree
  AccountsComplete
  EvaluationsCount
  
CHECK_DEADLOCK FALSE
