CONSTANTS
    l1 = l1
    l2 = l2
    a = a
    b = b
    Loft = {l1, l2}
    Message = {a, b}
    Attributed = {a, b}
    Unopenable = {b}
    Required = TRUE
    Evidences = {"known", "missing", "stale"}
    AcceptAll = FALSE
    PageLimit = 1
    MaxPages = 2
    InboxLimit = 2
    MaxTombstones = 1
    Expiring = {}
    Copies <- MCCopies
    MaxCursor <- MCMaxCursor
SPECIFICATION FairInboxSpec
PROPERTIES MailNotPinned DeliveredInTheEnd
CHECK_DEADLOCK FALSE
