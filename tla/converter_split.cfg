SPECIFICATION Spec
CONSTANTS
    X = X
    W = W
    Y = Y
    Token = {X, Y}
    Account = {o, p, q}
    Owner = o
    NullAddress = NullAddress
    Share = {0, 1, 2}
    TriggerFee = {40, 101}
    Path <- DirectPaths
    Amount = {5}
    MaxHolding = 5
    MaxPath = 2
INVARIANTS
    PayeesMatchShares
    PayoutIsComplete
CHECK_DEADLOCK FALSE
