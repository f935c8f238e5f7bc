SPECIFICATION FairSpec
CONSTANTS
  e1 = e1
  e2 = e2
  s1 = s1
  d0 = d0
  d1 = d1
  d2 = d2
  m1 = m1
  None = None
  Experiments <- One
  Services <- MCServices
  Deployments <- TwoCandidates
  SpecOf <- CriteriaPair
  Matches <- MCMatches
  Responses <- PairAnswers
  UserOverrides <- NoOverrides
  Deletable <- Nobody
  InitialTargets <- SomeMissing
  InitialRules <- AnyRules
  StaleReads = FALSE
  MaxOverrides = 0
  MaxArrivals = 2
  MaxLosses = 0
  MaxFailures = 0
  MaxCrashes = 0
INVARIANTS RoutesDefined DesiredEnd StatusMatchesTraffic TrafficHasTargets
  
CHECK_DEADLOCK FALSE
