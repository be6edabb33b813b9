SPECIFICATION Spec
CONSTANTS
    Ann = Ann
    Bob = Bob
    Account = {Ann, Bob}
    Contract = Contract
    Owner = Ann
    Schedule <- Changing
    Amount = {1, 2}
    InitBalance <- Few
    MaxStakes = 2
    MaxInitial = 4
    MaxTime = 4
INVARIANTS
    TypeOK
    StakesWellFormed
    TotalSupplyIsSumOfBalances
    WithdrawnIsVested
PROPERTIES
    ExtendKeepsVesting
    VestedStakesAreLeftAlone
CHECK_DEADLOCK FALSE
