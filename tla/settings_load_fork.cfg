\* As settings.cfg, checking only that the store's txn chains stay linked.
CONSTANTS
Accounts <- MCTwoAccounts
SettingsAccounts <- MCTwoAccounts
Amounts <- MCAmounts
Shards = 1
MaxBatch = 1
MaxTxnId = 1
MaxFailures = 0
MaxRestarts = 0
LateDelivery = FALSE
NoTxn = NoTxn
None = None
NoSettings = NoSettings
NoKey = NoKey
K1 = K1
Keys <- MCKeys
MaxSettings = 2
MaxSettingsFailures = 0
SPECIFICATION Spec
INVARIANT ChainLinked
