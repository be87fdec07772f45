\* Two labels of one daemon: its count, drawn and acked, while windows leave.
SPECIFICATION Spec
CONSTANTS
    h1 = h1
    h2 = h2
    d1 = d1
    None = None
    Host = {h1, h2}
    Daemon = {d1}
    Root <- OneRoot
    MaxCount = 2
    MaxTries = 2
    MaxLeaves = 2
    MaxCuts = 1
    Loads <- CountsAndLeaves
SYMMETRY HostSymmetry
INVARIANTS CountIsOwedOrAcked KeepDropsNoRequest CloseExitsZero
PROPERTIES NothingAckedUnshown ConfirmedIsHeard DeliveredIsWritten
\* The process ends.
CHECK_DEADLOCK FALSE
