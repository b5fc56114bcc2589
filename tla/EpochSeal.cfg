\* Does a sealed epoch promise no more than it was funded with?
SPECIFICATION EpochsAlone
CONSTANTS
    alice = alice  bob = bob  adm = adm  op = op
    Users <- MCUsers
    Admins <- MCAdmins
    Admin = adm
    Pool = pool
    None = None
    Void = Void
    FullBps = 1
    SCALE = 4
    Amounts = {1, 2}
    MaxStaked = 3
    MaxFunded = 3
    Supply = 3
    LockPeriods = {0, 1, 2, 3}
    MaxLockPeriod = 2
    MaxDeposits = 1
    MaxTime = 2
    Durations = {1}
    MaxEpochs = 2
SYMMETRY UserSymmetry
INVARIANTS SealedWithinFunding
CHECK_DEADLOCK FALSE
