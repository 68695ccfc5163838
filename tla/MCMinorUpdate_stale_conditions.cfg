\* A second update starts with the conditions of the first.
SPECIFICATION DeployedSpec
CONSTANTS
    Nil = Nil
    Versions = {1, 2, 3}
    Images = {1, 2, 3}
    Services = {"rabbitmq", "ovn", "rest"}
    Enabled = {"rabbitmq", "ovn", "rest"}
    StagedOrder <- MCStagedOne
    NormalOrder <- MCNormalOne
    ImageOf <- MCDistinctImages
    NicMappings = TRUE
    NodeSets = {n1}
    EmptyNodeSets = {}
    MaxRetargets = 2
    MaxDisturbances = 0
    WaitsForDeployed = TRUE
    FollowsProcedure = TRUE
PROPERTIES
    OvnBeforeServices
CHECK_DEADLOCK FALSE
