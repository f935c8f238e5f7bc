SPECIFICATION FairSpec
CONSTANTS
  e1 = e1
  e2 = e2
  s1 = s1
  d0 = d0
  d1 = d1
  d2 = d2
  m1 = m1
  None = None
  Experiments <- One
  Services <- MCServices
  Deployments <- OneCandidate
  SpecOf <- Plain
  Matches <- MCMatches
  Responses <- NoResponses
  UserOverrides <- PauseAndResume
  Deletable <- Nobody
  InitialTargets <- AllExist
  InitialRules <- Unruled
  StaleReads = FALSE
  MaxOverrides = 2
  MaxArrivals = 0
  MaxLosses = 0
  MaxFailures = 0
  MaxCrashes = 0
PROPERTIES ResumeHonoured
CHECK_DEADLOCK FALSE
