SPECIFICATION MCSpec
CONSTANTS
    a1 = a1
    w1 = w1
    w2 = w2
    r1 = r1
    r2 = r2
    Agent = {a1}
    Wrap = {w1, w2}
    Request = {r1, r2}
    Recipient <- MCRecipient
    Work <- MCWork
    EventSize <- MCEventSize
    PolicyInput <- MCPolicyInput
    RecordInput = {}
    RotationInput = {}
    Reservation = 1
    ControlDivisor = 2
    Capacities = {6}
    Retention = 1
    Skew = 0
    SweepBatch = 1
    MaxTime = 1
    MaxCursor = 2
    Retries = 2
    MaxBlocking = 1
    PageLimit = 1
    MaxCrashes = 1
    v1 = v1
    v2 = v2
    s1 = s1
    s2 = s2
    Visit = {v1, v2}
    Source = {s1, s2}
    Owner = {a1}
    Slots = 2
    Lanes = 1
    MaxKeys = 1
    Span = 4
    GlobalLimits <- MCGlobalLimits
    SourceLimits <- MCSourceLimits
    OwnerLimits <- MCOwnerLimits
    MaxStall = 1
    MaxClock = 5
INVARIANTS NoEventSkipped PermitsMatchClosures SourceBudget RoomComesBack CapturesBounded
PROPERTIES AdmittedUnderCurrentPolicy
SYMMETRY Interchangeable
