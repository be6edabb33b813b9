SPECIFICATION Spec
CONSTANTS
    X = X
    W = W
    Y = Y
    Token = {X, W, Y}
    Account = {o}
    Owner = o
    NullAddress = NullAddress
    Share = {1}
    TriggerFee = {0}
    Path <- NoPaths
    Amount = {2}
    MaxHolding = 4
    MaxPath = 3
INVARIANTS
    BuysSwapToToken
CHECK_DEADLOCK FALSE
