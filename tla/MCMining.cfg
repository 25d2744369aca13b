\* One pool and three stakers over two blocks, from the migration on.
CONSTANTS
    Accounts = {dao, alice, bob}
    dao = dao
    alice = alice
    bob = bob
    RamsDao = dao
    Tokens = {}
    PrecisionFactor = 2
    IntModulus = 1000
    InitialAmount = 1
    DefaultMinUnstake = 1
    DefaultExpiry = 1
    DefaultRows = 1
    DefaultMaxStake = 2
    MaxSupply = 1
    InitialVaultRam = 1
    BankDeposits <- MCDeposits
    BankBorrows <- MCBorrows
    BankRentTokens <- MCTable
    BankRents <- MCNothing
    BankRewards <- MCRewards
    BankFrozen = {}
    BankBorrowers = {alice}
    Amounts = {1}
    Rents = {}
    ConfigRows <- MCRows
    MaxUnstakes = 1
    MaxTime = 0
    MaxRent = 0
    MaxIgnored = 0
    NameOrder <- MCOrder
    RewardTokens = {wram}
    MinerPrecision = 4
    MaxPools = 1
    Rates = {0, 6}
    Limits = {1, 2}
    MaxBlock = 2
    Fundings = {4}
    MaxFunding = 4
SPECIFICATION MiningSpec
INVARIANTS
    MinerTypeOK
    TotalTracked
    PoolsFunded
PROPERTIES
    TracksStakes
    PaidPerBlock
    PoolsStart
