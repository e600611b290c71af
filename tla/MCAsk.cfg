SPECIFICATION FairSpec
CONSTANTS
  Callers = {{}, {"compliance_analyst"}, {"onboarding_officer"}, {"service_agent"}, {"onboarding_officer", "service_agent"}}
  MaxRequests = 2
  MaxFaults = 1
INVARIANTS
  TypeOK
  TrailMatchesAnswer
  StubsAreCounted
PROPERTIES
  CheckedFirst
  Answered
CHECK_DEADLOCK FALSE
