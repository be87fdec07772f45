\* Two windows; kills, reboots and restarts, no failed write and no update.
SPECIFICATION FairSpec
CONSTANTS
    Conn = {c1, c2}
    Window = {w1, w2}
    RowId = {r1}
    HandoverBound = 2
    MaxClock = 3
    MaxCount = 3
    MaxNotEnded = 1
    MaxStarts = 3
    MaxBoots = 2
    MaxFaults = 0
    MaxUpdates = 0
    None = None
    NoRecord = NoRecord
    Unreadable = Unreadable
INVARIANTS OnlyKeepIsOpenEnded RecordIsCurrent
PROPERTIES PromiseKept HandoverIsBounded CloseEndsTheProcess
\* A daemon that is not started again stays down.
CHECK_DEADLOCK FALSE
