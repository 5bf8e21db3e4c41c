SPECIFICATION ThrottleFairSpec
CONSTANTS
    Calls = {c1, c2, c3, c4}
    Priorities = {1, 3}
    MaxConcurrent = 2
    NoCall = NoCall
INVARIANTS
    SlotsConserved
    OvertakenOnce
PROPERTIES
    UrgentCallsAreAnswered
CHECK_DEADLOCK FALSE
