\* Three runs of one-call plans and the two other agents: who may act on the resource at
\* the same time, and who while it cools down.
CONSTANTS
    Runs = {r1, r2, r3}
    Plans <- ScalePlans
    SreAgent = SreAgent
    SecurityAgent = SecurityAgent
    CostAgent = CostAgent
    OtherAgents <- MCOtherAgents
    OtherPriority <- MCOtherPriority
    NoLock = NoLock
    NoLimit = NoLimit
    Registered = {"kubernetes", "container_instance", "virtual_machine"}
    HasStore = FALSE
    MaxOtherGrants = 1

SPECIFICATION Spec

SYMMETRY RunSymmetry

CONSTRAINT OverlapBound

INVARIANTS
    OverlapNeedsLostLease
    LeakNeedsRaise

PROPERTIES
    CooldownHolds
