SPECIFICATION FairSpec
CONSTANTS
    WINDOW = 1
    CHUNK = 1
    MAX_CHANNELS = 2
    MaxCh = 1
    MaxBytes = 2
    Loads <- FairLoads
    None = None
PROPERTIES WrittenIsRead ReleasedIsReaped EndsTogether
\* A link that ended, with its users gone, stays ended.
CHECK_DEADLOCK FALSE
