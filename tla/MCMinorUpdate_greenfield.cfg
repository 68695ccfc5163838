\* From an empty cluster; the operator may be upgraded before it is done.
SPECIFICATION FairSpec
CONSTANTS
    Nil = Nil
    Versions = {1, 2}
    Images = {1, 2}
    Services = {"rabbitmq", "ovn"}
    Enabled = {"rabbitmq", "ovn"}
    StagedOrder <- MCStagedOne
    NormalOrder <- MCNormalTwo
    ImageOf <- MCDistinctImages
    NicMappings = TRUE
    NodeSets = {n1}
    EmptyNodeSets = {}
    MaxRetargets = 0
    MaxDisturbances = 1
    WaitsForDeployed = TRUE
    FollowsProcedure = TRUE
INVARIANTS
    TypeOK
PROPERTIES
    GreenfieldReachesDeployed
    FirstDeploymentSound
CHECK_DEADLOCK FALSE
