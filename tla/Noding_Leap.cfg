SPECIFICATION Spec
CONSTANTS
    k1 = k1
    k2 = k2
    k3 = k3
    k4 = k4
    Accounts = {1, 2}
    Genesis <- GenesisOfTwo
    KeysOf <- SharedKeys
    MaxValidators = 1
    LotteryValidators = 1
    JailAfter = 2
    UnjailAfter = 1
    Slices <- TwoSlices
    LuckyPower = 1
    Staff = {}
    Causes = {"status"}
    MaxHeight = 4
    MaxEvents = 3
    Distributions = {}
    Seats = {}
    NoInfo = NoInfo
    NoKey = NoKey
INVARIANT NoDuplicateUpdates
CHECK_DEADLOCK FALSE
