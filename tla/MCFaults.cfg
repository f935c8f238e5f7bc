SPECIFICATION Spec
CONSTANTS
  e1 = e1
  e2 = e2
  s1 = s1
  d0 = d0
  d1 = d1
  d2 = d2
  m1 = m1
  None = None
  Experiments <- One
  Services <- MCServices
  Deployments <- OneCandidate
  SpecOf <- Criteria
  Matches <- MCMatches
  Responses <- Answers
  UserOverrides <- AllOverrides
  Deletable <- One
  InitialTargets <- AllExist
  InitialRules <- Unruled
  StaleReads = TRUE
  MaxOverrides = 1
  MaxArrivals = 0
  MaxLosses = 0
  MaxFailures = 1
  MaxCrashes = 1
INVARIANTS  TrafficConserved RunningRoutesServed
PROPERTIES PauseHolds UsesCache CompletedFinal ImplementsLifecycle
CHECK_DEADLOCK FALSE
