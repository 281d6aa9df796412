SPECIFICATION Spec
CONSTANTS
    Wallets = {w1, w2}
    Installed = {w1, w2}
    None = None
    Connects = {c1}
    Restores = {r1, r2}
    Ticks = {}
    Leaves = {}
    Refreshes = {f1}
INVARIANT ContextIsOfTheSelected
\* the user may stop using the page
CHECK_DEADLOCK FALSE
