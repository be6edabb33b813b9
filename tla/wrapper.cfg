SPECIFICATION WrapperSpec
CONSTANTS
    Ann = Ann
    Bob = Bob
    X = X
    WETH = WETH
    Contract = Contract
    Wallet = {Ann, Bob, Contract}
    NullAddress = NullAddress
    Unknown = Unknown
    Owner = Bob
    Token = {X, WETH}
    Nonce = {0, 1, 2}
    Signature <- MCSignature
    FeeValue = {0, 5000}
    FeeWallet = {Bob}
    Authorization <- MCAuthorization
    Cancellation <- MCCancellation
    Approval <- MCApproval
    InitBalance <- MCHolding
    InitAllowance <- Nothing
    ChainId = {1}
    DomainChainId = 1
    MaxTime = 1
    Payable = {Ann, Bob}
    InitEther <- MCHolding
INVARIANTS
    OrdersForEtherSettle
CHECK_DEADLOCK FALSE
