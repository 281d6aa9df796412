\* The game form, which takes the key from the first box of the wallet.
CONSTANTS
    a1 = a1
    a2 = a2
    Bets = {b1}
    Amounts = {50, 149}
    EntropyBytes = {0, 1, 255}
    PlayerAddrs = {a1, a2}
    ChangeAddr = a1
    House = house
    NoBox = NoBox
    Unsettled = Unsettled
    PlayerWallets <- MCPlayerWallets
    KeySource = "form"
    HouseWallets <- MCHouseWallets
    TIMEOUT_DELTA = 2
    MinFee = 2
    FeeTarget = 1
    MaxHeight = 4
SPECIFICATION Spec
PROPERTY P2PKWalletCanBet
CHECK_DEADLOCK FALSE
