\* A swept balance that does not fit the int of update_reward.
CONSTANTS
    Accounts = {a1, a2}
    Tokens = {t1}
    RatioPrecision = 4
    PrecisionFactor = 4
    IntModulus = 4
    DefaultMaxDeposit = 3
    DefaultDaoRatio = 0
    DefaultUsageLimit = 0
    MaxFeeRatio = 2
    Amounts = {1, 2}
    Rents = {4}
    FeeRatios = {0}
    DaoRatios = {0, 1}
    UsageLimits = {0}
    DepositLimits = {3}
    MaxRent = 4
SPECIFICATION RewardsSpec
INVARIANT RewardBooked
