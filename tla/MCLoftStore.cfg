SPECIFICATION MCSpec
CONSTANTS
    a1 = a1
    a2 = a2
    w1 = w1
    w2 = w2
    w3 = w3
    p1 = p1
    p2 = p2
    Agent = {a1, a2}
    Wrap = {w1, w2, w3}
    Recipient <- MCRecipient
    Work <- MCWork
    EventSize <- MCEventSize
    PolicyInput <- MCPolicyInput
    RecordInput <- MCRecordInput
    RotationInput <- MCRotationInput
    Reservation = 3
    ControlDivisor = 2
    Capacities = {14, 18}
    Retention = 1
    Skew = 0
    SweepBatch = 1
    MaxTime = 2
    MaxCursor = 3
    Process = {p1, p2}
    MaxWindow = 1
    Limits = {1, 2}
    Ceiling = 2
    BatchSize = 2
    MaxRollbacks = 1
INVARIANTS NoSlotGrantedTwice OwnSlotsDistinct CountersMatchRows WithinCapacity RotationExtendsRecord NeverStranded
PROPERTIES AddressHistoryKept ImplementsLofts
SYMMETRY Interchangeable
