SPECIFICATION Spec
CONSTANTS
    Ann = Ann
    Bob = Bob
    Account = {Ann}
    Contract = Contract
    Owner = Ann
    Schedule <- Changing
    Amount = {1, 2}
    InitBalance <- Few
    MaxStakes = 2
    MaxInitial = 4
    MaxTime = 4
PROPERTIES
    FullyVestedStakesAreNotExtended
CHECK_DEADLOCK FALSE
