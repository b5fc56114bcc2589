\* Does a delegatee hold the stake that is delegated to it?
SPECIFICATION Spec
CONSTANTS
    alice = alice  bob = bob  val1 = val1  val2 = val2  slasher = slasher
    Users <- MCUsers
    Delegatees <- MCDelegatees
    Authorities <- MCAuthorities
    None = None
    Amounts = {1, 2}
    Rates = {0, 1, 3}
    FullRate = 2
    Fundings = {2}
    Cooldowns = {0}
    SCALE = 1
    DefaultCooldown = 1
    MaxStake = 2
    MaxIndex = 1
    MaxEpoch = 2
    MaxTime = 1
    MaxDelegations = 2
    MaxDrift = 0
    MaxRequests = 1
SYMMETRY AddressSymmetry
INVARIANT DelegateeStakeIsSum
CHECK_DEADLOCK FALSE
