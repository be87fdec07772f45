\* Two polls whose lock fails: the second meets a line's cut back and two filings between
\* its two reads.
SPECIFICATION Spec
CONSTANTS
    a = a
    b = b
    c = c
    d = d
    p = p
    q = q
    None = None
    Msg = {a, b, c}
    Remote = {}
    Reader = {p, q}
    AppendsHere = TRUE
    MaxPolls = 2
    MaxKills = 0
    MaxErrors = 3
    MaxCrashes = 0
    MaxLost = 0
SYMMETRY Symmetry
INVARIANTS NoneLost
\* When everything is sent and polled, nothing is left to do.
CHECK_DEADLOCK FALSE
