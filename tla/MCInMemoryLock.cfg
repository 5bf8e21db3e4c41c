\* Two resources, leases of one and two ticks, three tokens in four ticks.
CONSTANTS
    pod = pod
    node = node
    SecurityAgent = SecurityAgent
    SreAgent = SreAgent
    NoLock = NoLock
    Keys <- MCKeys
    Agents <- MCAgents
    Priorities = {1, 2}
    Ttls = {1, 2}
    MaxToken = 3
    MaxTime = 3

SPECIFICATION Spec

INVARIANTS
    ResultsAreFenced

PROPERTIES
    InvalidForGood
    ImplementsFencedLock

\* The clock and the tokens are bounded.
CHECK_DEADLOCK FALSE
