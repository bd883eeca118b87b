CONSTANTS
    NoTask = NoTask
    Threads = {one}
SPECIFICATION FairSpec
PROPERTIES TransferEnds
CHECK_DEADLOCK FALSE
