CONSTANTS
    Off = Off
    Configs = {c0, c1}
    Defaults = c0
    N = 7
    PayloadFields = 2
    SeqModulus = 4
    MaxSaves = 4
    RetireMayFail = FALSE
SPECIFICATION Spec
INVARIANTS LogIsSound
PROPERTIES SaveContract ImplementsDurable
CHECK_DEADLOCK FALSE
