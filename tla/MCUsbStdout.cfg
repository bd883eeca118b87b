CONSTANTS
    RingCells = 5
    FrameCells = 2
    TextCells = 1
    PacketCells = 2
    EventSlots = 3
    Numbers = 10
    MaxEnumerations = 2
SPECIFICATION FairSpec
INVARIANTS TypeOK
PROPERTIES StreamIsContinuous DrainsUnlessLost
