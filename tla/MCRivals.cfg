SPECIFICATION Spec
CONSTANTS
  e1 = e1
  e2 = e2
  s1 = s1
  d0 = d0
  d1 = d1
  d2 = d2
  m1 = m1
  None = None
  Experiments <- Two
  Services <- MCServices
  Deployments <- TwoCandidates
  SpecOf <- Rivals
  Matches <- MCMatches
  Responses <- NoResponses
  UserOverrides <- NoOverrides
  Deletable <- Two
  InitialTargets <- AnyTargets
  InitialRules <- Unruled
  StaleReads = FALSE
  MaxOverrides = 0
  MaxArrivals = 0
  MaxLosses = 0
  MaxFailures = 0
  MaxCrashes = 1
INVARIANTS TypeOK TrafficConserved GoneReleased
 
CHECK_DEADLOCK FALSE
