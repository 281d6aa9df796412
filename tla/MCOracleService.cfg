SPECIFICATION FairSpec
CONSTANTS
    q1 = q1
    q2 = q2
    N = 2
    Calls = {q1, q2}
    StaleAge = 1
    MaxSwitches = 1
INVARIANTS
    NoneMeansAllFailed
PROPERTIES
    EveryCallEnds
    StaleFeedIsNoticed
    ReportsFollow
\* the service may be stopped and nobody asks
CHECK_DEADLOCK FALSE
