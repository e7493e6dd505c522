\* One Processor and the SettingsProcessor; one transfer failure (possibly a push delivered late) and two settings push failures; account 1 sends up to two settings (and re-sends failed ones), keys NoKey only.
CONSTANTS
Accounts <- MCTwoAccounts
SettingsAccounts <- MCSettingsAccount
Amounts <- MCAmounts
Shards = 1
MaxBatch = 1
MaxTxnId = 1
MaxFailures = 1
MaxRestarts = 0
LateDelivery = TRUE
NoTxn = NoTxn
None = None
NoSettings = NoSettings
NoKey = NoKey
K1 = K1
Keys <- MCNoKeys
MaxSettings = 2
MaxSettingsFailures = 2
SPECIFICATION Spec
INVARIANT SettingsCacheDurable
