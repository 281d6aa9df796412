SPECIFICATION Spec
CONSTANTS
    l1 = l1
    l2 = l2
    c1 = c1
    c2 = c2
    c3 = c3
    c4 = c4
    Lps = {l1, l2}
    Calls = {c1, c2, c3, c4}
    None = None
    MIN_DEPOSIT_NANOERG = 1
    MIN_POOL_VALUE_NANOERG = 3
    CACHE_TTL = 1
    PoolAtStart <- MCPool
    WalletsAtStart <- MCWallets
    ReserveAtStart = 4
    Bodies <- MCBodies
    Profits = {4}
    Params <- MCParams
    MaxHeight = 1
    MaxClock = 1
    MaxValue = 8
INVARIANTS
    IInv
    
PROPERTIES
    OnlyStaleQuotesCost
    FloorGivesWayToOverlapsOnly
    CacheIsFresh
\* every call may have ended
CHECK_DEADLOCK FALSE
