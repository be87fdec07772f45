\* Two processes that file, one through the daemon, and two pollers of one lock.
SPECIFICATION Spec
CONSTANTS
    a = a
    b = b
    c = c
    d = d
    p = p
    q = q
    None = None
    Msg = {a, b, c}
    Remote = {c}
    Reader = {p, q}
    AppendsHere = TRUE
    MaxPolls = 2
    MaxKills = 2
    MaxErrors = 2
    MaxCrashes = 1
    MaxLost = 1
SYMMETRY Symmetry
INVARIANTS VerdictIsTrue NoneSkipped
\* When everything is sent and polled, nothing is left to do.
CHECK_DEADLOCK FALSE
