SPECIFICATION Spec
CONSTANTS
    p1 = p1
    p2 = p2
    l1 = l1
    l2 = l2
    nobody = nobody
    Proc = {p1, p2}
    Nobody = nobody
    Loft = {l1}
    MaxLive = 1
    Grace = 1
    Terms = {0, 1}
    MaxKey = 4
    MaxTime = 2
    MaxFaults = 1
    MaxEffort = 5
INVARIANTS OneSuccessor NoKeyLost TornOnlyByRemoval NumbersAreUnique PlacedAsRecorded
SYMMETRY Interchangeable
CHECK_DEADLOCK FALSE
