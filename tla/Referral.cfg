SPECIFICATION Spec
CONSTANTS
    root = root
    ann = ann
    bob = bob
    cat = cat
    Accounts = {root, ann, bob, cat}
    None = None
    Depth = 3
    CountLimit = 8
    MaxStatus = 3
    MinIndexed = 2
    Requirement <- MCRequirement
    Holdings <- MCHoldings
    Dust = 1
    Price = 1
    Tariff = 1
    Day = 1
    Month = 2
    NoTime = NoTime
    Genesis <- MCGenesis
    MaxGap = 2
    MaxNow = 7
    MaxTxs = 3
INVARIANTS Forest LinesExact TimersArmed BanishmentDeserved StatusIndexed
PROPERTIES NeverCutOff RestartKeeps
CHECK_DEADLOCK FALSE
