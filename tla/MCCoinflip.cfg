\* One bet, every byte class of the flip, two amounts, a wallet of two addresses.
CONSTANTS
    a1 = a1
    a2 = a2
    Bets = {b1}
    Amounts = {50, 149}
    EntropyBytes = {0, 1, 255}
    PlayerAddrs = {a1, a2}
    ChangeAddr = a1
    House = house
    NoBox = NoBox
    Unsettled = Unsettled
    PlayerWallets <- MCPlayerWallets
    KeySource = "caller"
    HouseWallets <- MCHouseWallets
    TIMEOUT_DELTA = 2
    MinFee = 2
    FeeTarget = 1
    MaxHeight = 4
SPECIFICATION FairSpec
INVARIANTS
    RevealPaysTheFlip
    PlayerFloor
    HouseFloor
    IInv
PROPERTIES
    EscrowSpec
    EveryBetSettles
CHECK_DEADLOCK FALSE
