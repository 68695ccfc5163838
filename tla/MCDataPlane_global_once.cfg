SPECIFICATION SetUpSpec
CONSTANTS
  n1 = n1  n2 = n2  d1 = d1  d2 = d2  s1 = s1  s1x = s1x  s2 = s2
  Nil = Nil
  NodeSets = {n1, n2}
  Deployments = {d1}
  Services = {s1, s2}
  TargetsOf <- BothTargets
  Listed <- GlobalsListed
  Catalog <- Globals
  Override <- NoOverride
  Plan <- MCPlan
  UpdateDeployments = {}
  Deletable = {d1}
  VarsFrom = {}
  Hashes = {0}
  HashOf <- AlwaysNew
  MaxGeneration = 0
  MaxData = 0
  MaxVersion = 1
  MaxFaults = 0
  MaxWakes = 0
  Patient = FALSE
INVARIANTS
  GlobalOnce
CHECK_DEADLOCK FALSE
