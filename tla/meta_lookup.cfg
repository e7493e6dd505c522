\* GetByMetaKey after accepted transfers with metadata: one Processor, the
\* ledger's bounds, one metadata key, no index pairs of the client's own.
\* The lookup of the metadata of the first transfer asks the store for the
\* txn before id 1 (sqlchain DB.GetTxnMulti, id < ?) and fails.
CONSTANTS
    Accounts <- MCTwoAccounts
    SettingsAccounts <- MCTwoAccounts
    Amounts <- MCAmounts
    Shards = 1
    MaxBatch = 1
    MaxTxnId = 2
    MaxFailures = 1
    MaxRestarts = 1
    LateDelivery = FALSE
    NoTxn = NoTxn
    None = None
    NoSettings = NoSettings
    NoKey = NoKey
    K1 = K1
    Keys <- MCNoKeys
    MaxSettings = 0
    MaxSettingsFailures = 0
    Short = Short
    m1 = m1
    MetaKeys <- MCMetaKeys
    UserIndexes <- MCNoUserIndex
SPECIFICATION ApiSpec
INVARIANT MetaLookupFindsTxn
