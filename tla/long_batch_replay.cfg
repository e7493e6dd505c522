\* One Processor, batches of up to five items, a retried batch.
CONSTANTS
    Accounts <- MCTwoAccounts
    SettingsAccounts <- MCTwoAccounts
    Amounts <- MCAmounts
    Shards = 1
    MaxBatch = 5
    MaxTxnId = 5
    MaxFailures = 0
    MaxRestarts = 0
    LateDelivery = FALSE
    NoTxn = NoTxn
    None = None
    NoSettings = NoSettings
    NoKey = NoKey
    K1 = K1
    Keys <- MCNoKeys
    MaxSettings = 0
    MaxSettingsFailures = 0
SPECIFICATION Spec
INVARIANT IdempotentRetry
