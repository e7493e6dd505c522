\* One Processor and the SettingsProcessor; up to two settings per account, keys NoKey and K1; client retries; no failures.
CONSTANTS
Accounts <- MCTwoAccounts
SettingsAccounts <- MCTwoAccounts
Amounts <- MCAmounts
Shards = 1
MaxBatch = 1
MaxTxnId = 1
MaxFailures = 0
MaxRestarts = 0
LateDelivery = FALSE
NoTxn = NoTxn
None = None
NoSettings = NoSettings
NoKey = NoKey
K1 = K1
Keys <- MCKeys
MaxSettings = 2
MaxSettingsFailures = 0
SPECIFICATION Spec
INVARIANT SettingsCacheMatchesStore
INVARIANT BalanceMatchesStore
PROPERTY SignedByCurrentKey
INVARIANT SettingsSkipListImplementsPut
INVARIANT GateRepliesResync
