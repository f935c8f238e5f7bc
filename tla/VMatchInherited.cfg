SPECIFICATION Spec
CONSTANTS
  e1 = e1
  e2 = e2
  s1 = s1
  d0 = d0
  d1 = d1
  d2 = d2
  m1 = m1
  None = None
  Experiments <- Two
  Services <- MCServices
  Deployments <- OneCandidate
  SpecOf <- Successors
  Matches <- MCMatches
  Responses <- NoResponses
  UserOverrides <- NoOverrides
  Deletable <- Nobody
  InitialTargets <- AllExist
  InitialRules <- Unruled
  StaleReads = FALSE
  MaxOverrides = 0
  MaxArrivals = 0
  MaxLosses = 0
  MaxFailures = 0
  MaxCrashes = 0
INVARIANTS MatchHonoured
CHECK_DEADLOCK FALSE
