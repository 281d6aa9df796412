SPECIFICATION FairSpec
CONSTANTS
    Wallets = {w1, w2}
    Installed = {w1, w2}
    None = None
    Connects = {c1, c2}
    Restores = {r1}
    Ticks = {}
    Leaves = {}
    Refreshes = {}
INVARIANTS
    IInv
    ConnectingIsBacked
PROPERTIES
    ConnectsEnd
\* the user may stop using the page
CHECK_DEADLOCK FALSE
