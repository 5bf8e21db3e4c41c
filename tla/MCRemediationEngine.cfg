\* One run of any plan, with status rows: what is stored and returned, the kill
\* switch, and the end of every call.
CONSTANTS
    Runs = {r1}
    Plans <- AllPlans
    SreAgent = SreAgent
    SecurityAgent = SecurityAgent
    CostAgent = CostAgent
    OtherAgents <- MCOtherAgents
    OtherPriority <- MCOtherPriority
    NoLock = NoLock
    NoLimit = NoLimit
    Registered = {"kubernetes", "container_instance", "virtual_machine"}
    HasStore = TRUE
    MaxOtherGrants = 1

SPECIFICATION FairSpec

INVARIANTS
    RecordsAreTrue
    KillStopsAtAction

PROPERTIES
    RunsEnd
