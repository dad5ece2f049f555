SPECIFICATION FairOutboxSpec
CONSTANTS
    l1 = l1
    l2 = l2
    a = a
    b = b
    p1 = p1
    p2 = p2
    Loft = {l1, l2}
    Message = {a, b}
    Route <- MCRoute
    Flusher = {p1, p2}
    Sweeping = {l1}
    Down = {l2}
    RowLimit = 2
    PayloadLimit = 2
    FlushBatch = 1
    OperatorDeletes = TRUE
    MaxRow = 2
    MaxTaken = 2
INVARIANTS SentMeansStored OutboxAccounting CopiesAccountedFor
PROPERTIES CopiesSettled
CHECK_DEADLOCK FALSE
