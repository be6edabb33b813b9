SPECIFICATION Spec
CONSTANTS
    A = A
    B = B
    C = C
    X = X
    Y = Y
    Wallet = {A, B, C}
    NullAddress = NullAddress
    Unknown = Unknown
    Owner = C
    Token = {X, Y}
    Nonce <- MCNonce
    Signature <- MCSignature
    FeeValue = {0, 5000, 10000}
    FeeWallet = {A, C, NullAddress}
    Authorization <- MCAuthorization
    Cancellation <- MCCancellation
    Approval <- MCApproval
    InitBalance <- Four
    InitAllowance <- Four
    ChainId = {1, 2}
    DomainChainId = 1
    MaxTime = 1
INVARIANTS
    UsedNoncesAreDetected
CHECK_DEADLOCK FALSE
