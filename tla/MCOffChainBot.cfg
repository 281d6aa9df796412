SPECIFICATION FairSpec
CONSTANTS
    NodeTimeout = 3
    MoreOps = 1
    LoopSleep = 2
    BeatInterval = 4
    CleanupTime = 1
    KillTimeout = 2
    MaxLaunches = 2
    MaxFails = 2
INVARIANTS
    HeartbeatIsFresh
    GoneLeavesNoFile
    StopTakesOneRound
PROPERTIES
    StopEnds
CHECK_DEADLOCK FALSE
