\* One host: every leave ends, on the window's own scheduling.
SPECIFICATION FairSpec
CONSTANTS
    h1 = h1
    h2 = h2
    d1 = d1
    None = None
    Host = {h1}
    Daemon = {d1}
    Root <- OneRoot
    MaxCount = 1
    MaxTries = 2
    MaxLeaves = 3
    MaxCuts = 1
    Loads <- ManyLeaves
INVARIANTS HeldForTheWindowsLife
PROPERTIES LeaveEnds
\* The process ends.
CHECK_DEADLOCK FALSE
