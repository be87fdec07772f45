SPECIFICATION Spec
CONSTANTS
    s1 = s1
    s2 = s2
    s3 = s3
    d1 = d1
    d2 = d2
    Supervisor <- Supervisor3
    Dog <- Dog2
    MaxRestarts = 1
    Loads <- LifeLoads
SYMMETRY Symmetry
INVARIANTS RestartsAreOwned EndedRunsNoAgent ReportCoversRuns
PROPERTIES ResetsItsOwn OnlyAResetUnasks SettledStartsNothing TerminalIsTrue
\* A row that is gone, or at rest with nothing left to come, stops.
CHECK_DEADLOCK FALSE
