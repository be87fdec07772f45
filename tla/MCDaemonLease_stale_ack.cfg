\* Two windows told the same count during a startup Cleanup.
SPECIFICATION Spec
CONSTANTS
    Conn = {c1, c2}
    Window = {w1, w2}
    RowId = {r1}
    HandoverBound = 1
    MaxClock = 2
    MaxCount = 3
    MaxNotEnded = 1
    MaxStarts = 3
    MaxBoots = 1
    MaxFaults = 0
    MaxUpdates = 0
    None = None
    NoRecord = NoRecord
    Unreadable = Unreadable
PROPERTIES AckNeverHidesANewerCount
\* A daemon that is not started again stays down.
CHECK_DEADLOCK FALSE
