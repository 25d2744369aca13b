\* V and RAM without rent tokens, before and after the migration.
CONSTANTS
    Accounts = {dao, alice}
    dao = dao
    alice = alice
    RamsDao = dao
    Tokens = {}
    PrecisionFactor = 2
    IntModulus = 1000
    InitialAmount = 2
    DefaultMinUnstake = 1
    DefaultExpiry = 1
    DefaultRows = 2
    DefaultMaxStake = 3
    MaxSupply = 3
    InitialVaultRam = 1
    BankDeposits <- MCDeposits
    BankBorrows <- MCBorrows
    BankRentTokens <- MCRentTokens
    BankRents <- MCRents
    BankRewards <- MCRewards
    BankFrozen = {}
    BankBorrowers = {alice}
    Amounts = {1, 2}
    Rents = {}
    ConfigRows <- VaultRows
    MaxUnstakes = 2
    MaxTime = 2
    MaxRent = 0
    MaxIgnored = 1
SPECIFICATION Spec
INVARIANTS
    StakeTypeOK
    StakesTotalled
    UnstakingMatchesRows
    VaultCovered
    LoansRecorded
PROPERTIES
    PaidAfterExpiry
