SPECIFICATION Spec
CONSTANTS
    d1 = d1
    d2 = d2
    w1 = w1
    w2 = w2
    Requests = {d1, d2}
    Writers = {w1, w2}
    StatusOf <- WriterStatuses
    NoRow = NoRow
    Unread = Unread
INVARIANTS
    RowIsExplained
    NewestLostNeedsCause
PROPERTIES
    RefusalNeedsMishap
    ReopenedAtMostOnce
CHECK_DEADLOCK FALSE
