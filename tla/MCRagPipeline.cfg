SPECIFICATION Spec
CONSTANTS
    r1 = r1
    r2 = r2
    r3 = r3
    mild = mild
    grave = grave
    k = k
    Requests = {r1, r2, r3}
    AlertOf <- AlertNamed
    Facts <- FactsOf
    Key <- OneKey
    Evidence <- SomeEvidence
    Confidences = {0, 10}
    NoResult = NoResult
    NoEntry = NoEntry
INVARIANTS
    WaiverIsEarned
    TraceIsTrue
    SeverityAnswers
CHECK_DEADLOCK FALSE
