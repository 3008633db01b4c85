SPECIFICATION Spec
CONSTANTS
  ann = ann
  ben = ben
  cat = cat
  a1 = a1
  a2 = a2
  b1 = b1
  Members <- MCMembers
  Devices <- MCDevices
  AccountOf <- MCAccounts
  Owner = ann
  Seated = {ben}
  Synced = {a1}
  Admins = {a1, b1}
  Invitees = {ben, cat}
  Unreliable = {a2, b1}
  MaxEpoch = 3
  MaxOps = 3
  MaxFaults = 1
INVARIANTS TypeOK CachedSlotIsServers SlotsOnlyForMembers SurvivorsRekeyed IngestedHasKey
CHECK_DEADLOCK FALSE
