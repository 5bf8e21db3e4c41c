SPECIFICATION FairSpec
CONSTANTS
    Calls = {c1, c2, c3}
    MaxRetries = 2
    FailureThreshold = 4
INVARIANTS
    BreakerConsistent
    FailureBurstBounded
PROPERTIES
    OpenOnlyDrains
    RecoversWithService
