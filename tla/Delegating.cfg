SPECIFICATION Spec
CONSTANTS
    Accounts = {ann, bob}
    Amounts = {2, 4}
    Day = 2
    Period <- MCPeriod
    Burn <- MCBurn
    Dust = 2
    MaxGap = 2
    MaxNow = 8
    MaxTxs = 3
    NoTime = NoTime
INVARIANTS AccrualScheduled PaidOnce RevokingBacked ReturnScheduled NothingLeftBehind
PROPERTIES EventuallyReturned
CHECK_DEADLOCK FALSE
