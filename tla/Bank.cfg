SPECIFICATION BankSpec
CONSTANTS
    ann = ann
    bob = bob
    Users = {ann, bob}
    Company = firm
    Amounts = {5, 13}
    Wallet = 20
    MinSend = 2
    TransactionFee <- MCHalf
    MaxTransactionFee = 5
    Ratios <- MCRatios
    Penalty <- MCHalf
    RevokeBurns <- MCRevokeBurns
    MaxTxs = 4
INVARIANTS SupplyMatches SharesAddUp
SYMMETRY Accounts
CHECK_DEADLOCK FALSE
