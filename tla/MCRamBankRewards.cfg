\* Rent and rewards: two accounts, one token, rounding in every division.
CONSTANTS
    Accounts = {a1, a2}
    Tokens = {t1}
    RatioPrecision = 4
    PrecisionFactor = 4
    IntModulus = 1000
    DefaultMaxDeposit = 3
    DefaultDaoRatio = 2
    DefaultUsageLimit = 0
    MaxFeeRatio = 2
    Amounts = {1, 2}
    Rents = {1, 3}
    FeeRatios = {0}
    DaoRatios = {0, 1}
    UsageLimits = {0}
    DepositLimits = {3}
    MaxRent = 4
SPECIFICATION RewardsSpec
SYMMETRY AccountSymmetry
INVARIANTS
    DebtCovered
    RentsTotalled
    RewardBooked
PROPERTIES
    PaidOnBytesHeld
    RewardsShared
