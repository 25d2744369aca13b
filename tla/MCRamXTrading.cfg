\* Listing, cancelling and trading between two accounts.
CONSTANTS
    Accounts = {a1, a2}
    Tokens = {}
    RatioPrecision = 4
    PrecisionFactor = 4
    IntModulus = 1000
    DefaultMaxDeposit = 3
    DefaultDaoRatio = 1
    DefaultUsageLimit = 0
    MaxFeeRatio = 2
    Amounts = {1, 2}
    Rents = {}
    FeeRatios = {0}
    DaoRatios = {1}
    UsageLimits = {0}
    DepositLimits = {3}
    MaxRent = 0
    PricePrecision = 2
    MaxPrice = 3
    MaxTradeVolume = 4
    DefaultMinBytes = 1
    DefaultFeeRatio = 2
    Prices = {3}
    Quantities = {2, 3}
    TradeFeeRatios = {2}
    MinAmounts = {0}
    MinBytes = {1}
    MaxOrders = 3
    MaxIgnored = 0
SPECIFICATION TradingSpec
SYMMETRY AccountSymmetry
INVARIANTS
    ExchangeTypeOK
    FrozenCovered
    FrozenMatchesOrders
    EscrowMatchesOrders
    BookMatchesOrders
PROPERTIES
    OrderLifecycle
    MakersServedInFull
