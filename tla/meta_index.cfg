\* Transfers with metadata whose client adds an "id" index pair, of 8
\* bytes or shorter: the pair comes after the API's own, and GetByMetaKey
\* reads the last one. Kept beside the runs; see PROJECT.json (hazards).
CONSTANTS
    Accounts <- MCTwoAccounts
    SettingsAccounts <- MCTwoAccounts
    Amounts <- MCAmounts
    Shards = 1
    MaxBatch = 1
    MaxTxnId = 2
    MaxFailures = 1
    MaxRestarts = 1
    LateDelivery = FALSE
    NoTxn = NoTxn
    None = None
    NoSettings = NoSettings
    NoKey = NoKey
    K1 = K1
    Keys <- MCNoKeys
    MaxSettings = 0
    MaxSettingsFailures = 0
    Short = Short
    m1 = m1
    MetaKeys <- MCMetaKeys
    UserIndexes <- MCUserIndexes
SPECIFICATION ApiSpec
INVARIANT MetaIndexNamesTxn
