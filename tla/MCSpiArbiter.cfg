CONSTANTS
    NoTask = NoTask
    Threads = {one}
SPECIFICATION FairSpec
INVARIANTS ArbiterIsSound
PROPERTIES ImplementsService RequestsAreAnswered
CHECK_DEADLOCK FALSE
