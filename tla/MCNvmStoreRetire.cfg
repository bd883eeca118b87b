CONSTANTS
    Off = Off
    Configs = {c0, c1}
    Defaults = c0
    N = 7
    PayloadFields = 2
    SeqModulus = 4
    MaxSaves = 4
    RetireMayFail = TRUE
SPECIFICATION Spec
PROPERTY NeverLost
CHECK_DEADLOCK FALSE
