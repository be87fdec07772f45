\* Two writers killed before the flush, a poll between, and the machine stops.
SPECIFICATION Spec
CONSTANTS
    a = a
    b = b
    c = c
    d = d
    p = p
    q = q
    None = None
    Msg = {a, b, c}
    Remote = {}
    Reader = {p, q}
    AppendsHere = TRUE
    MaxPolls = 2
    MaxKills = 2
    MaxErrors = 2
    MaxCrashes = 1
    MaxLost = 2
SYMMETRY Symmetry
INVARIANTS NoneSkipped
\* When everything is sent and polled, nothing is left to do.
CHECK_DEADLOCK FALSE
