\* Rent, claims and changes of stake: one token, rounding in every division.
CONSTANTS
    Accounts = {dao, alice}
    dao = dao
    alice = alice
    RamsDao = dao
    Tokens = {t1}
    PrecisionFactor = 2
    IntModulus = 1000
    InitialAmount = 2
    DefaultMinUnstake = 1
    DefaultExpiry = 1
    DefaultRows = 2
    DefaultMaxStake = 3
    MaxSupply = 3
    InitialVaultRam = 1
    BankDeposits <- MCDeposits
    BankBorrows <- MCBorrows
    BankRentTokens <- MCRentTokens
    BankRents <- MCRents
    BankRewards <- MCRewards
    BankFrozen = {}
    BankBorrowers = {alice}
    Amounts = {1}
    Rents = {1, 3}
    ConfigRows <- RewardsRows
    MaxUnstakes = 1
    MaxTime = 0
    MaxRent = 5
    MaxIgnored = 1
SPECIFICATION RewardsSpec
INVARIANTS
    StakeDebtCovered
    RewardFunded
PROPERTIES
    PaidOnStakeHeld
    RentShared
