SPECIFICATION FairSpec
CONSTANTS
    e1 = e1
    e2 = e2
    Entry = {e1}
    Witness = {w1}
    Threshold = 1
    Forgetful = {}
    Base <- OneEntry
    CosignedNotes = FALSE
    Restores = FALSE
    MaxLog = 3
    MaxFaults = 1
PROPERTIES CommittedIsPublished
