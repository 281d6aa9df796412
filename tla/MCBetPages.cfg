SPECIFICATION FairSpec
CONSTANTS
    a1 = a1
    Addresses = {a1, a2}
    None = None
    Amounts = {99, 900001}
    Earlier <- MCEarlier
    Slots = {1, 2}
    MaxBets = 2
    MaxSwitches = 2
    MaxActs = 3
    MaxRestarts = 1
INVARIANTS
    IInv
    PlacedIsRecordedOnce
    RoutesAgree
    SpinnerIsBacked
PROPERTIES
    HistoryCatchesUp
CHECK_DEADLOCK FALSE
