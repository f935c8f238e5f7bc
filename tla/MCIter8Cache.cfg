SPECIFICATION Spec
CONSTANTS
  e1 = e1
  e2 = e2
  s1 = s1
  s2 = s2
  d1 = d1
  d2 = d2
  None = None
  Experiments <- MCExperiments
  Services <- MCServices
  Deployments <- MCDeployments
SYMMETRY Symmetry
INVARIANTS TypeOK LookupSound LookupComplete
PROPERTIES WakeUpKept ImplementsOwnership
