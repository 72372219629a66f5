SPECIFICATION Spec
CONSTANTS
    k1 = k1
    k2 = k2
    k3 = k3
    k4 = k4
    Accounts = {1, 2, 3}
    Genesis <- GenesisOfThree
    KeysOf <- OwnKeys
    MaxValidators = 1
    LotteryValidators = 1
    JailAfter = 2
    UnjailAfter = 1
    Slices <- TwoSlices
    LuckyPower = 1
    Staff = {2}
    Causes = {"status"}
    MaxHeight = 4
    MaxEvents = 2
    Distributions <- FifthsAndSixths
    Seats = {1, 2, 3, 4, 5, 6, 7}
    NoInfo = NoInfo
    NoKey = NoKey
INVARIANTS PowersByMerit CometAgrees QueueMatches SignersKnown SeatsRespected
PROPERTIES NoQueueJumping
CHECK_DEADLOCK FALSE
