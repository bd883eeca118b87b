CONSTANTS
    NodeIds = {n1, n2, n3}
    NoId = NoId
    Slots = 2
    FifoDepth = 2
    Mailboxes = 1
    Burst = 1
SPECIFICATION ServerSpec
INVARIANTS SlotsSuffice
