\* Settings with one failure: a settings push that fails after its INSERT was applied.
CONSTANTS
    Accounts <- MCTwoAccounts
    SettingsAccounts <- MCTwoAccounts
    Amounts <- MCAmounts
    Shards = 1
    MaxBatch = 1
    MaxTxnId = 1
    MaxFailures = 0
    MaxRestarts = 0
    LateDelivery = FALSE
    NoTxn = NoTxn
    None = None
    NoSettings = NoSettings
    NoKey = NoKey
    K1 = K1
    Keys <- MCKeys
    MaxSettings = 2
    MaxSettingsFailures = 1
SPECIFICATION Spec
PROPERTY SignedByCurrentKey
