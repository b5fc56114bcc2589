\* Staking pools and reward accounts.
SPECIFICATION StakingSpec
CONSTANTS
    alice = alice  bob = bob  adm = adm  op = op
    Users <- MCUsers
    Admins <- MCAdmins
    Admin = adm
    Pool = pool
    None = None
    Void = Void
    FullBps = 1
    SCALE = 3
    Amounts = {1, 2}
    MaxStaked = 2
    MaxFunded = 3
    Supply = 2
    LockPeriods = {0, 1, 2, 3}
    MaxLockPeriod = 2
    MaxDeposits = 3
    MaxTime = 2
    Durations = {1}
    MaxEpochs = 2
SYMMETRY UserSymmetry
INVARIANTS StakingTypeOK StakesBacked OverpaidPerFunding EarningsFunded
PROPERTIES DepositsInOrder RewardsFromFundingOnly StakesInCustody
CHECK_DEADLOCK FALSE
