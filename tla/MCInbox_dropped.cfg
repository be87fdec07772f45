\* One message and one poll that is killed.
SPECIFICATION Spec
CONSTANTS
    a = a
    b = b
    c = c
    d = d
    p = p
    q = q
    None = None
    Msg = {a}
    Remote = {}
    Reader = {p}
    AppendsHere = TRUE
    MaxPolls = 1
    MaxKills = 1
    MaxErrors = 0
    MaxCrashes = 0
    MaxLost = 0
INVARIANTS NoneDropped
\* When everything is sent and polled, nothing is left to do.
CHECK_DEADLOCK FALSE
