SPECIFICATION MCSpec
CONSTANTS
    a1 = a1
    w1 = w1
    w2 = w2
    r1 = r1
    r2 = r2
    Agent = {a1}
    Wrap = {w1, w2}
    Request = {r1, r2}
    Recipient <- MCRecipient
    Work <- MCWork
    EventSize <- MCEventSize
    PolicyInput <- MCPolicyInput
    RecordInput <- MCRecordInput
    RotationInput <- MCRotationInput
    Reservation = 1
    ControlDivisor = 2
    Capacities = {10}
    Retention = 1
    Skew = 0
    SweepBatch = 1
    MaxTime = 1
    MaxCursor = 2
    Retries = 2
    MaxBlocking = 1
    PageLimit = 1
    MaxCrashes = 1
PROPERTIES PublishAnswered ExpiredIsSwept StoredIsDelivered
