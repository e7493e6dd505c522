\* LIMIT 0 and LIMIT <offset>, <count> through the SQL front end: the store
\* reads 0 as no limit and never reads the offset (token).
CONSTANTS
    Accounts <- MCTwoAccounts
    SettingsAccounts <- MCTwoAccounts
    Amounts <- MCAmounts
    Shards = 1
    MaxBatch = 2
    MaxTxnId = 2
    MaxFailures = 0
    MaxRestarts = 0
    LateDelivery = FALSE
    NoTxn = NoTxn
    None = None
    NoSettings = NoSettings
    NoKey = NoKey
    K1 = K1
    Keys <- MCNoKeys
    MaxSettings = 0
    MaxSettingsFailures = 0
    MCSqlLimits <- MCSqlPagedLimits
SPECIFICATION Spec
INVARIANT SqlSelectMatchesSql
