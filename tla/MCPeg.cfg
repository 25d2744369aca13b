\* V converted, held, staked and withdrawn, and the RAM behind it lent.
CONSTANTS
    Accounts = {dao, alice, token}
    dao = dao
    alice = alice
    token = token
    RamsDao = dao
    Tokens = {}
    PrecisionFactor = 2
    IntModulus = 1000
    InitialAmount = 1
    DefaultMinUnstake = 1
    DefaultExpiry = 1
    DefaultRows = 1
    DefaultMaxStake = 3
    MaxSupply = 3
    InitialVaultRam = 0
    BankDeposits <- MCDeposits
    BankBorrows <- MCBorrows
    BankRentTokens <- MCTable
    BankRents <- MCNothing
    BankRewards <- MCRewards
    BankFrozen = {}
    BankBorrowers = {alice, token}
    Amounts = {1, 2}
    Rents = {}
    ConfigRows = {}
    MaxUnstakes = 1
    MaxTime = 1
    MaxRent = 0
    MaxIgnored = 1
    Issuer = token
    None = none
    MaxNested = 2
SPECIFICATION PegSpec
INVARIANTS
    TokenTypeOK
PROPERTIES
    KeepsLedger
    BuyerCredited
