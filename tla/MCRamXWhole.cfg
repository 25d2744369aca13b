\* Both contracts with every action of both, rent and settings included.
CONSTANTS
    Accounts = {a1, a2}
    Tokens = {t1}
    RatioPrecision = 2
    PrecisionFactor = 2
    IntModulus = 1000
    DefaultMaxDeposit = 2
    DefaultDaoRatio = 1
    DefaultUsageLimit = 0
    MaxFeeRatio = 1
    Amounts = {1}
    Rents = {2}
    FeeRatios = {0}
    DaoRatios = {1}
    UsageLimits = {0}
    DepositLimits = {2}
    MaxRent = 2
    PricePrecision = 1
    MaxPrice = 1
    MaxTradeVolume = 2
    DefaultMinBytes = 1
    DefaultFeeRatio = 1
    Prices = {1}
    Quantities = {1}
    TradeFeeRatios = {1}
    MinAmounts = {0}
    MinBytes = {1}
    MaxOrders = 1
    MaxIgnored = 1
SPECIFICATION XSpec
SYMMETRY AccountSymmetry
PROPERTIES
    PaidOnBytesHeld
