SPECIFICATION FairSpec
CONSTANTS
    Names = {1, 2}
    Foreign = {3}
    Scenarios <- All
    Checked = {"rabbitmq"}
    None = None
INVARIANTS
    ForeignKept
    HandedOver
    RecordedWasDeployed
    UpdatedMeansAll
PROPERTIES
    Settles
