\* Batches as in batches.cfg, with a transfer of -1 allowed: ProcessTransfer
\* has its negative-amount guard commented out (processor.go:175).
CONSTANTS
    Accounts <- MCTwoAccounts
    SettingsAccounts <- MCTwoAccounts
    Amounts <- MCSignedAmounts
    Shards = 1
    MaxBatch = 2
    MaxTxnId = 2
    MaxFailures = 0
    MaxRestarts = 0
    LateDelivery = FALSE
    NoTxn = NoTxn
    None = None
    NoSettings = NoSettings
    NoKey = NoKey
    K1 = K1
    Keys <- MCNoKeys
    MaxSettings = 0
    MaxSettingsFailures = 0
SPECIFICATION Spec
INVARIANT NoNegativeBalance
