\* Every interleaving of two subscribers, overlapping readers, failures and crashes.
CONSTANTS
    MaxEntries = 2
    Watched = 2
    Handlers = {h1, h2}
    Wildcards = {h2}
    MaxRegistered = 2
    Readers = {q1, q2}
    NoReader = NoReader
    ReplySize = 2

SPECIFICATION BusFairSpec

INVARIANTS
    AckedIsHandled
    MishapsExplain

PROPERTIES
    DeliveredUnlessBlocked
