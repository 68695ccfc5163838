SPECIFICATION FairSpec
CONSTANTS
    Builds = {0, 1, 2}
    Release <- MCRelease
    Operators = {openstack, infra}
    WebhookOps = {infra}
    Hooks = {"vkept", "vold", "vnew"}
    Template <- MCTemplate
    Instances = {a, b}
    Overridable = {infra}
    Rollback = FALSE
    SameSecond = FALSE
    MaxDisturbed = 1
    MaxTime = 1
    None = None
    openstack = openstack
    infra = infra
    a = a
    b = b
INVARIANTS
    OlmOperatorLast
PROPERTIES
    ReportsWhatIsInstalled
    WebhooksTrusted
    InstallCompletes
CHECK_DEADLOCK FALSE
