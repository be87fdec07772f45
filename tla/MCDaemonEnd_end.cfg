SPECIFICATION FairSpec
CONSTANTS
    c1 = c1
    c2 = c2
    k1 = k1
    k2 = k2
    Child = {c1, c2}
    Blocking = {c2}
    Caller = {k1, k2}
    Loads <- EndLoads
INVARIANTS NoStrayRequest FireMissesNone RetiredStaysStopped
PROPERTIES ClaimEndsAll
\* A daemon that ended is not started again here.
CHECK_DEADLOCK FALSE
