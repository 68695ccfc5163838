\* Any user: targets change while an update is in progress, deployments are
\* created outside the procedure and fail.
SPECIFICATION DeployedSpec
CONSTANTS
    Nil = Nil
    Versions = {1, 2}
    Images = {1, 2}
    Services = {"rabbitmq", "ovn"}
    Enabled = {"rabbitmq", "ovn"}
    StagedOrder <- MCStagedOne
    NormalOrder <- MCNormalTwo
    ImageOf <- MCDistinctImages
    NicMappings = TRUE
    NodeSets = {n1}
    EmptyNodeSets = {}
    MaxRetargets = 2
    MaxDisturbances = 1
    WaitsForDeployed = FALSE
    FollowsProcedure = FALSE
INVARIANTS
    RecordedWasRolledOut
PROPERTIES
    CompletionSound
CHECK_DEADLOCK FALSE
