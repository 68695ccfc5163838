SPECIFICATION FairSpec
CONSTANTS
    Roles <- TwoRoles
    Issuers = {"mine"}
    None = None
    MaxSerial = 2
    MaxEvents = 3
INVARIANTS
    SingleIssuer
    ReadyMeansTrusted
PROPERTIES
    TrustKept
    Trusted
