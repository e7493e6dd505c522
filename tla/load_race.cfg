\* One Processor and the SettingsProcessor; one store push failure.
CONSTANTS
    Accounts <- MCTwoAccounts
    SettingsAccounts <- MCTwoAccounts
    Amounts <- MCAmounts
    Shards = 1
    MaxBatch = 1
    MaxTxnId = 2
    MaxFailures = 1
    MaxRestarts = 0
    LateDelivery = FALSE
    NoTxn = NoTxn
    None = None
    NoSettings = NoSettings
    NoKey = NoKey
    K1 = K1
    Keys <- MCNoKeys
    MaxSettings = 1
    MaxSettingsFailures = 0
SPECIFICATION Spec
PROPERTY LedgerRefinement
