\* Governance, timelock, multisig_admin, upgrades, slashing_module and bond_collateral.
SPECIFICATION AdminSpec
CONSTANTS
    v1 = v1  v2 = v2  call1 = call1  call2 = call2
    m1 = m1  m2 = m2  s1 = s1  s2 = s2  s3 = s3
    hash1 = hash1  hash2 = hash2  user1 = user1  user2 = user2
    adm = adm  other = other  w1 = w1  w2 = w2
    position1 = position1  position2 = position2
    None = None
    Clients = {"staking_pool", "bond_collateral", "deal_escrow", "rent_to_own"}
    Signatories <- MCSignatories
    Admin = adm
    Hashes <- MCHashes
    UpgradeDelays = {0, 1, 2}
    InitVersion = 1
    Schema = 1
    MaxVersion = 3
    FullBps = 2
    MaxTime = 3
    Voters <- MCVoters
    Stakes = {0, 2}
    Totals = {2, 6}
    InitialTotal = 2
    VotingPeriod = 1
    TimelockPeriod = 1
    QuorumBps = 1
    MinStake = 1
    MaxProposals = 1
    Calls <- MCCalls
    Members <- MCMembers
    InitialDelay = 1
    MaxDelay = 2
    Delays = {0, 1, 2}
    GracePeriod = 1
    EntryLife = 3
    Signers <- MCSigners
    Threshold = 2
    Expiries = {0, 1, 2}
    MaxMotions = 2
    Actors = {"actor"}
    Reporters = {"reporter"}
    Commitments = {hash1}
    Offences = {"Downtime"}
    DefaultTier <- MCDefaultTier
    Tiers = {3}
    Balances = {2}
    Windows = {0}
    DefaultWindow = 1
    Inspectors = {"inspector"}
    MaxSlashes = 2
    MaxReports = 2
    Users <- MCUsers
    Funds = 4
    Positions <- MCPositions
    MaxBond = 3
    PriceScale = 2
    Prices <- MCPrices
    RatioModulus = 256
    Staleness = {1}
    Thresholds = {120, 250}
    TargetRatios = {150, 300}
    RewardCaps = {0, 1}
    DefaultThreshold = 120
    DefaultTarget = 150
    DefaultCap = 1
    Amounts = {1, 2}
    Inspections = {"inspection1", "inspection2"}
SYMMETRY AddressSymmetry
INVARIANTS AdminTypeOK VotesAreSnapshots VerdictJustified RunsOnce ExecutedApproved SlashesJustified CollateralBooked
PROPERTIES UpgradesGuarded QueuedThroughGrace LiquidationRepairs LockedBondStays
CHECK_DEADLOCK FALSE
