SPECIFICATION Spec
CONSTANTS
    ann = ann
    bob = bob
    Accounts = {ann, bob}
    Subscribers = {ann}
    Founders = {ann}
    Wallets <- MCWallets
    NewProfiles <- MCNewProfiles
    Names = {"bob", "eve", "tabs", ""}
    Lower <- MCLower
    Trimmed <- MCTrimmed
    Gbs = {1, 2}
    Readings = {2}
    BaseStorage = 1
    BaseVpn = 1
    Price = 2
    GbPrice = 2
    VpnGbPrice = 1
    RenamePrice = 1
    NicknameFee = 1
    TxFee = 1
    Month = 3
    Word = 256
    MaxGap = 2
    MaxNow = 7
    MaxTxs = 4
    MaxRestarts = 1
    NoName = ""
    NoTime = NoTime
    NoProfile = NoProfile
INVARIANTS RenewalArmed ActivityAgrees FreshMonths ImArmed NicknamesIndexed LimitsHold
CHECK_DEADLOCK FALSE
