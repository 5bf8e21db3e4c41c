\* What the etcd protocol does guarantee.
CONSTANTS
    sec = sec
    sre1 = sre1
    sre2 = sre2
    SecurityAgent = SecurityAgent
    SreAgent = SreAgent
    NoLock = NoLock
    Callers <- MCCallers
    Agents <- MCAgents
    Priorities = {1, 2, 3}
    AgentOf <- MCAgentOf
    PriorityOf <- MCPriorityOf
    MaxToken = 3

SPECIFICATION Spec

INVARIANTS
    GrantsAreDistinct

PROPERTIES
    ImplementsPriorityLock
    PreemptionRaisesToken
