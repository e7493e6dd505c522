\* One Processor, batches of two, a retried batch.
CONSTANTS
    Accounts <- MCTwoAccounts
    SettingsAccounts <- MCTwoAccounts
    Amounts <- MCAmounts
    Shards = 1
    MaxBatch = 2
    MaxTxnId = 2
    MaxFailures = 0
    MaxRestarts = 0
    LateDelivery = FALSE
    NoTxn = NoTxn
    None = None
    NoSettings = NoSettings
    NoKey = NoKey
    K1 = K1
    Keys <- MCNoKeys
    MaxSettings = 0
    MaxSettingsFailures = 0
SPECIFICATION Spec
INVARIANT RepliesRecorded
