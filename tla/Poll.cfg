SPECIFICATION PollSpec
CONSTANTS
    Accounts = {x, y}
    Government = {x}
    Quorums <- MCQuorums
    NoQuorum = NoQuorum
    NoPoll = NoPoll
    PollPeriod = 2
    MaxGap = 3
    MaxNow = 5
    MaxRestarts = 1
INVARIANTS CountersAgree PollTimerArmed
PROPERTIES PollEventuallyEnds
CHECK_DEADLOCK FALSE
