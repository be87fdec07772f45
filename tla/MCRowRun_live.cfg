SPECIFICATION FairSpec
CONSTANTS
    s1 = s1
    s2 = s2
    s3 = s3
    d1 = d1
    d2 = d2
    Supervisor <- Supervisor2
    Dog <- Dog1
    MaxRestarts = 1
    Loads <- FairLoads
PROPERTIES GuardComesFree CrashIsHandled EndsAnswer
\* A row that is gone, or at rest with nothing left to come, stops.
CHECK_DEADLOCK FALSE
