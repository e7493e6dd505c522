\* Two Processors: an input pushed by the other shard between GetBalance and ListUnspentTxns.
CONSTANTS
    Accounts <- MCTwoAccounts
    SettingsAccounts <- MCTwoAccounts
    Amounts <- MCAmounts
    Shards = 2
    MaxBatch = 1
    MaxTxnId = 2
    MaxFailures = 0
    MaxRestarts = 0
    LateDelivery = FALSE
    NoTxn = NoTxn
    None = None
    NoSettings = NoSettings
    NoKey = NoKey
    K1 = K1
    Keys <- MCNoKeys
    MaxSettings = 0
    MaxSettingsFailures = 0
SPECIFICATION Spec
INVARIANT MoneyConserved
