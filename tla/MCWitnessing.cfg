SPECIFICATION FairSpec
CONSTANTS
    e1 = e1
    e2 = e2
    Entry = {e1, e2}
    Witness = {w1, w2}
    Threshold = 2
    Forgetful = {w1}
    Base <- OneEntry
    CosignedNotes = TRUE
    Restores = TRUE
    MaxLog = 2
    MaxFaults = 2
INVARIANTS HonestRemember NoSplitView PublishedIsWitnessed
PROPERTIES CommittedIsPublished
