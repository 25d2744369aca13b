\* Rows of amount 0 in front of a row that can be released.
CONSTANTS
    Accounts = {dao, alice}
    dao = dao
    alice = alice
    RamsDao = dao
    Tokens = {}
    PrecisionFactor = 2
    IntModulus = 1000
    InitialAmount = 2
    DefaultMinUnstake = 1
    DefaultExpiry = 1
    DefaultRows = 1
    DefaultMaxStake = 3
    MaxSupply = 3
    InitialVaultRam = 1
    BankDeposits <- MCDeposits
    BankBorrows <- MCBorrows
    BankRentTokens <- MCRentTokens
    BankRents <- MCRents
    BankRewards <- MCRewards
    BankFrozen = {}
    BankBorrowers = {alice}
    Amounts = {1, 2}
    Rents = {}
    ConfigRows <- VaultRows
    MaxUnstakes = 3
    MaxTime = 1
    MaxRent = 0
    MaxIgnored = 1
SPECIFICATION StakingSpec
INVARIANT WithdrawalServed
