SPECIFICATION SubgraphSpec
CONSTANTS
    A = A
    B = B
    C = C
    F = F
    X = X
    Y = Y
    Wallet = {A, B, C, F}
    NullAddress = NullAddress
    Unknown = Unknown
    Owner = F
    Token = {X, Y}
    Nonce = {0, 1}
    Signature <- MCSignature
    FeeValue = {5000}
    FeeWallet = {F}
    Authorization <- MCAuthorization
    Cancellation <- MCCancellation
    Approval <- MCApproval
    InitBalance <- Twenty
    InitAllowance <- Twenty
    ChainId = {1}
    DomainChainId = 1
    MaxTime = 1
    Budget <- MCBudget
    OraclePrice = {0, 5}
    PriceUnit = 4
    TokenUnit <- MCTokenUnit
    Base = 3
    SupportedToken = {X}
    SecondsInDay = 1
    Trader = {A, B}
    Pair <- MCPair
    DelegateAddr = {d}
    MaxNonce = 2
    MaxAmount = 2
INVARIANTS
    CancelledLightNoncesAreIndexed
    SwapsAreIndexed
    UsersAreIndexed
    ListingsAreIndexed
    RulesAreIndexed
PROPERTIES
    CollectedFeesAreIndexed
CHECK_DEADLOCK FALSE
