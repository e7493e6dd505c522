\* One Processor; one push times out and arrives after its input was spent.
CONSTANTS
    Accounts <- MCTwoAccounts
    SettingsAccounts <- MCTwoAccounts
    Amounts <- MCAmounts
    Shards = 1
    MaxBatch = 1
    MaxTxnId = 2
    MaxFailures = 1
    MaxRestarts = 0
    LateDelivery = TRUE
    NoTxn = NoTxn
    None = None
    NoSettings = NoSettings
    NoKey = NoKey
    K1 = K1
    Keys <- MCNoKeys
    MaxSettings = 0
    MaxSettingsFailures = 0
SPECIFICATION Spec
INVARIANT NoPhantomBalance
