SPECIFICATION Spec
CONSTANTS
    ann = ann
    bob = bob
    eve = eve
    Members = {ann, bob, eve}
    Values = {v1, v2}
    ValidValues = {v1}
    InitialGovernments <- SmallGovernments
    VotingPeriod = 2
    MaxGap = 3
    MaxNow = 4
    MaxProposals = 2
    MaxVotes = 4
    NoProposal = NoProposal
INVARIANTS VotesOfGovernment TimerArmed AppliedByTwoThirds
PROPERTIES EventuallyEnds
CHECK_DEADLOCK FALSE
