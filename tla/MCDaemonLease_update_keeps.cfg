\* A window that departs after an update is committed.
SPECIFICATION Spec
CONSTANTS
    Conn = {c1, c2}
    Window = {w1}
    RowId = {r1}
    HandoverBound = 1
    MaxClock = 2
    MaxCount = 3
    MaxNotEnded = 1
    MaxStarts = 2
    MaxBoots = 1
    MaxFaults = 0
    MaxUpdates = 1
    None = None
    NoRecord = NoRecord
    Unreadable = Unreadable
INVARIANTS OnlyKeepIsOpenEnded
\* A daemon that is not started again stays down.
CHECK_DEADLOCK FALSE
