\* Failed writes, unknown boots, damaged records and updates as well.
SPECIFICATION Spec
CONSTANTS
    Conn = {c1, c2}
    Window = {w1, w2}
    RowId = {r1}
    HandoverBound = 2
    MaxClock = 3
    MaxCount = 3
    MaxNotEnded = 1
    MaxStarts = 2
    MaxBoots = 2
    MaxFaults = 2
    MaxUpdates = 1
    None = None
    NoRecord = NoRecord
    Unreadable = Unreadable
SYMMETRY Symmetry
INVARIANTS NoCloseUnderAWindow KillNeverKeeps KillInCleanupCleansAgain
PROPERTIES RestartNeverExtends
\* A daemon that is not started again stays down.
CHECK_DEADLOCK FALSE
