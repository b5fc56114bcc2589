\* The contracts about tenancies, persons and the platform.
SPECIFICATION TenancySpec
CONSTANTS
    p1 = p1  p2 = p2
    Parties <- MCParties
    Admin = Admin
    None = None
    FullBps = 10
    MaxTime = 2
    Amounts = {1, 2}
    MaxBalance = 2
    MonthLength = 2
    Caps = {0, 1, 2}
    RtoDeals = {"lease"}
    Values = {2, 3}
    Required = {1, 2}
    ForfeitureRates = {0, 3}
    MaxPayments = 3
    LeaseDeals = {"lease"}
    ScheduleOperator = op
    Numbers = {1, 2}
    Dues = {0, 2}
    PaidBefore = {0, 1}
    MaxInstalments = 2
    ReceiptDeals = {"lease", "last"}
    CounterDeal = "last"
    References = {"ref1", "ref2", "ref3"}
    Limits = {1, 2}
    MaxReceipts = 4
    RawReferences <- MCRawReferences
    Canonical <- MCCanonical
    RecordDeals = {"lease", "rental"}
    RepOperator = op
    Scores = {0, 1, 3}
    DecayRates = {0, 1, 2}
    DecayPeriods = {0, 1, 2}
    Inspectors = {"inspector"}
    MinBonds = {1, 2}
    PenaltyRates = {12}
    LockTimes = {1}
    ChallengeWindows = {0, 1}
    MaxSlashes = 2
    Listings = {"listing"}
    HoldWindows = {0, 1}
    MaxAllocations = 2
    OracleOperator = op
    Prices = {0, 1, 2}
    Thresholds = {1}
    Deviations = {5}
    Quorums = {0, 2}
    MaxSequence = 2
    MaxReporters = 3
    SecondApprover = approver
    Permissions = {"CreditFunds"}
    RolesGiven = {"Admin", "Operator"}
    ProxyApprover = approver
    ProxyCodes = {"code1", "code2"}
    MaxVersion = 3
    Versions <- MCVersions
    InitialVersion <- MCInitialVersion
    PartLimit = 2
    EntryPoints = {"pay"}
    Depths = {0, 1, 3, 4}
    DefaultDepth = 2
    DepthLimit = 3
SYMMETRY PartySymmetry
INVARIANTS TenancyTypeOK PaymentsAccounted RecordsAgree ClaimsPaidOnce MigrationsChain
PROPERTIES MonthlyCapHolds BondLossJustified OraclePrices RevocationReaches ScoresOnlyDecay
CHECK_DEADLOCK FALSE
