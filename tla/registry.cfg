SPECIFICATION ClientSpec
CONSTANTS
    X = X
    Y = Y
    Staker = {s1, s2}
    Contract = Contract
    Token = {X, Y, Z}
    URL = {u, v}
    NoURL = NoURL
    obligationCost = 2
    tokenCost = 1
    InitBalance = 6
    Query <- MCQuery
    Amount = {1, 2, 4}
    Levels <- MCLevels
INVARIANTS
    IndexesAgree
    ContractOwesWhatItHolds
    SteadyStakersAreFound
    AllServersOrNone
    BestOfferIsTaken
PROPERTIES
    ImplementsDirectory
    QuietRegistryIsReadExactly
    GetServersSettles
CHECK_DEADLOCK FALSE
