SPECIFICATION Spec
CONSTANTS
    WINDOW = 4
    CHUNK = 2
    MAX_CHANNELS = 2
    MaxCh = 2
    MaxBytes = 6
    Loads <- SafeLoads
    None = None
INVARIANTS StreamIsWhole CreditConserved NoViolation NoLostWakeup
\* A link that ended, with its users gone, stays ended.
CHECK_DEADLOCK FALSE
