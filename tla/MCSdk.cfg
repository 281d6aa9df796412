SPECIFICATION SdkSpec
CONSTANTS
    IntHalf = 32768
    LongHalf = 268435456
    PkLength = 2
    Values <- MCValues
    Fees = {2, 3}
    DefaultFee = 2
    MinBoxValue = 3
    Amounts = {4}
    Funds = {4, 6, 7, 8, 13}
    MaxDust = 3
INVARIANTS
    NumbersSurvive
    BytesSurvive
    ValuesSurvive
    TransactionsBalance
\* every register may have been read
CHECK_DEADLOCK FALSE
