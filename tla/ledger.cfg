\* One Processor (plutos -threads 1); a store or delivery failure and a restart.
CONSTANTS
    Accounts <- MCTwoAccounts
    SettingsAccounts <- MCTwoAccounts
    Amounts <- MCAmounts
    Shards = 1
    MaxBatch = 1
    MaxTxnId = 2
    MaxFailures = 1
    MaxRestarts = 1
    LateDelivery = FALSE
    NoTxn = NoTxn
    None = None
    NoSettings = NoSettings
    NoKey = NoKey
    K1 = K1
    Keys <- MCNoKeys
    MaxSettings = 0
    MaxSettingsFailures = 0
SPECIFICATION Spec
INVARIANT TypeOK
INVARIANT MoneyConserved
INVARIANT NoPhantomBalance
INVARIANT CacheHeadMatchesStore
INVARIANT IdempotentRetry
PROPERTY LedgerRefinement
