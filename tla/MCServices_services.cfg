SPECIFICATION FairSpec
CONSTANTS
    None = None
    Custom = Custom
    Plans <- Singly
    ComponentsOff <- OneOff
    Kinds <- Few
    MaxEvents <- Bounds
    TLSKeepers <- Keepers
    Comparers <- Compared
INVARIANTS
    RecordedWasDeployed
    MatchMeansDeployed
PROPERTIES
    TLSKept
    Converges
    BecomesReady
