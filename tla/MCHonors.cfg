\* RAMS swapped and converted by three accounts, and gas funds shared by them.
CONSTANTS
    Accounts = {dao, alice, bob}
    dao = dao
    alice = alice
    bob = bob
    RamsDao = dao
    Tokens = {btc}
    PrecisionFactor = 2
    IntModulus = 1000
    InitialAmount = 5
    DefaultMinUnstake = 1
    DefaultExpiry = 1
    DefaultRows = 1
    DefaultMaxStake = 5
    MaxSupply = 5
    InitialVaultRam = 0
    BankDeposits <- MCDeposits
    BankBorrows <- MCBorrows
    BankRentTokens <- MCRentTokens
    BankRents <- MCRents
    BankRewards <- MCRewards
    BankFrozen = {}
    BankBorrowers = {alice, bob}
    Amounts = {}
    Rents = {}
    ConfigRows = {}
    MaxUnstakes = 0
    MaxTime = 1
    MaxRent = 3
    MaxIgnored = 0
    Holders = {alice, bob, dao}
    NullAccount = null
    HonorAccount = honor
    Deployer = alice
    BytesPerInscription = 3
    RamsPerInscription = 2
    Minted <- MCMinted
    MaxRams = 6
    Nums = {1}
    SwapBytes = {3}
    RamsAmounts = {1, 2}
    NameValue <- MCNames
    Btc = btc
    UtxoManager = bob
    VeteranRatio = 1
    RatioPrecision = 2
    DefaultDeadline = 0
    Deadlines = {0}
    GasFunds = {1, 3}
    MaxGasFund = 3
SPECIFICATION HonorsSpec
INVARIANTS
    HonorTypeOK
    RamsBacked
    VeteransTotalled
PROPERTIES
    GasFundShared
