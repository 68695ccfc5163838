SPECIFICATION FairSpec
CONSTANTS
  n1 = n1  n2 = n2  d1 = d1  d2 = d2  s1 = s1  s1x = s1x  s2 = s2
  Nil = Nil
  NodeSets = {n1}
  Deployments = {d1}
  Services = {s1, s1x, s2}
  TargetsOf <- OneTarget
  Listed <- SameTypeListed
  Catalog <- SameType
  Override <- NoOverride
  Plan <- MCPlan
  UpdateDeployments = {}
  Deletable = {}
  VarsFrom = {}
  Hashes = {0}
  HashOf <- AlwaysNew
  MaxGeneration = 0
  MaxData = 0
  MaxVersion = 1
  MaxFaults = 2
  MaxWakes = 1
  Patient = FALSE
INVARIANTS
  InventoryBeforeJobs
  ListedServicesRan
PROPERTIES
  RollsOut
  DeploymentEnds
CHECK_DEADLOCK FALSE
