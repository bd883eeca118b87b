CONSTANTS
    NodeIds = {n1, n2}
    NoId = NoId
    Slots = 3
    FifoDepth = 2
    Mailboxes = 1
    Burst = 1
SPECIFICATION PromptSpec
INVARIANTS OwnIdIsHeard
PROPERTIES ServerKeepsUp
