CONSTANTS
    Capacity = 3
    Wrap = 6
    DrainLimit = 2
    MaxSessions = 2
    MaxSequence = 8
    None = None
SPECIFICATION FairSpec
INVARIANTS TypeOK
PROPERTIES GapsAreMarked ImplementsChannel EveryRecordLeaves
