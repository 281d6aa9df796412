\* As in MCCoinflip; 255 is an odd byte that the contract reads as negative.
CONSTANTS
    a1 = a1
    a2 = a2
    Bets = {b1}
    Amounts = {50, 149}
    EntropyBytes = {0, 1, 255}
    PlayerAddrs = {a1, a2}
    ChangeAddr = a1
    House = house
    NoBox = NoBox
    Unsettled = Unsettled
    PlayerWallets <- MCPlayerWallets
    KeySource = "caller"
    HouseWallets <- MCHouseWallets
    TIMEOUT_DELTA = 2
    MinFee = 2
    FeeTarget = 1
    MaxHeight = 4
SPECIFICATION Spec
INVARIANT EveryByteHasASide
CHECK_DEADLOCK FALSE
