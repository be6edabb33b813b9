SPECIFICATION IndexSpec
CONSTANTS
    Ann = Ann
    Bob = Bob
    Cat = Cat
    Account = {Ann, Bob}
    Contract = Contract
    Owner = Bob
    Tree <- MCTree
    Proof <- MCProof
    Score = {10, 15}
    Scale = {0, 1, 78}
    Percentage = {50, 100, 101}
    MinimumAmount = {3}
    MaxClaims = 2
    InitBalance = 8
    PayoutToken = PayoutToken
    TextOf <- MCTextOf
    MaxTime = 1
INVARIANTS
    EachLeafPaidOnce
    EveryLeafIsClaimable
    ClaimsMatchPayouts
    PoolIsIndexed
PROPERTIES
    WithdrawalIsBounded
    WithdrawalPaysLeafScores
CHECK_DEADLOCK FALSE
