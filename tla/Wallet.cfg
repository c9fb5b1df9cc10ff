SPECIFICATION Spec
CONSTANTS
    Deposits = {7}
    FundAmounts = {5}
    WithdrawAmounts = {6}
    Fee = 3
    DUST = 1
    Width = 16
    Term = 1
    LookAhead = 1
    MaxTx = 3
    MaxBlocks = 5
    MaxKeys = 2
    MaxFaults = 1
INVARIANTS
    TypeOK
    NoDoubleSpend
    SpendsExisting
    NothingLost
    Balanced
CHECK_DEADLOCK FALSE
