SPECIFICATION Spec
CONSTANTS
  n1 = n1  n2 = n2  d1 = d1  d2 = d2  s1 = s1  s1x = s1x  s2 = s2
  Nil = Nil
  NodeSets = {n1}
  Deployments = {d1, d2}
  Services = {s1}
  TargetsOf <- OneTarget
  Listed <- OneListed
  Catalog <- OneService
  Override <- NoOverride
  Plan <- MCPlan
  UpdateDeployments = {d2}
  Deletable = {d1, d2}
  VarsFrom = {n1}
  Hashes = {0, 1}
  HashOf <- AlwaysNew
  MaxGeneration = 1
  MaxData = 1
  MaxVersion = 2
  MaxFaults = 1
  MaxWakes = 0
  Patient = TRUE
INVARIANTS
  TypeOK
  RecordedWasApplied
  ReadyWasDeployed
  NothingMissed
  InventoryCurrent
CHECK_DEADLOCK FALSE
