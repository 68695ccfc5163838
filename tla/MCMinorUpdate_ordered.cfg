\* One update of the whole control plane by a user who follows the procedure, under
\* fairness; a service flaps, a reconcile or a deployment fails, or a node set is
\* edited on the way.
SPECIFICATION FairDeployedSpec
CONSTANTS
    Nil = Nil
    Versions = {1, 2}
    Images = {1, 2}
    Services = {"rabbitmq", "mariadb", "memcached", "ovn", "keystone", "rest"}
    Enabled = {"rabbitmq", "mariadb", "memcached", "ovn", "keystone", "rest"}
    StagedOrder <- MCStagedOrder
    NormalOrder <- MCNormalOrder
    ImageOf <- MCDistinctImages
    NicMappings = TRUE
    NodeSets = {n1}
    EmptyNodeSets = {}
    MaxRetargets = 1
    MaxDisturbances = 1
    WaitsForDeployed = TRUE
    FollowsProcedure = TRUE
INVARIANTS
    OvnControlPlaneFirst
PROPERTIES
    OvnBeforeServices
    StagedInOrder
    CompletionCurrent
    UpdateCompletes
CHECK_DEADLOCK FALSE
