SPECIFICATION Spec
CONSTANTS
    Wallets = {w1, w2}
    Installed = {w1, w2}
    None = None
    Connects = {}
    Restores = {r1, r2}
    Ticks = {t1}
    Leaves = {d1}
    Refreshes = {f1}
SYMMETRY Symmetry
PROPERTIES
    RestoreInstallsTheSelected
\* the user may stop using the page
CHECK_DEADLOCK FALSE
