\* Two relays and two events under every failure of a call and every crash: a claim
\* takes one of the two events or both.
CONSTANTS
    r1 = r1
    r2 = r2
    NoEvent = NoEvent
    Relays <- MCRelays
    Events = {1, 2}
    MaxRetries = 2
    BatchSize = 2

SPECIFICATION FairSpec

INVARIANTS
    ExclusiveClaims

PROPERTIES
    NoPublishOnceMarked
    ImplementsAtLeastOnce
    SettledOrStranded
