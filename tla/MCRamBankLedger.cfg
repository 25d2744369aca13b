\* The RAM ledger alone: three accounts, no rent token, every setting.
CONSTANTS
    Accounts = {a1, a2, a3}
    Tokens = {}
    RatioPrecision = 4
    PrecisionFactor = 4
    IntModulus = 1000
    DefaultMaxDeposit = 5
    DefaultDaoRatio = 1
    DefaultUsageLimit = 3
    MaxFeeRatio = 2
    Amounts = {1, 2}
    Rents = {}
    FeeRatios = {0, 2}
    DaoRatios = {1}
    UsageLimits = {0, 3}
    DepositLimits = {5}
    MaxRent = 0
SPECIFICATION Spec
SYMMETRY AccountSymmetry
INVARIANTS
    TypeOK
    LedgerBalanced
    LoansCovered
    FrozenCovered
