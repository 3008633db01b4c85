SPECIFICATION Spec
CONSTANTS
  alice = alice
  bob = bob
  Clients <- MCClients
  Owner = alice
  MaxEdits = 2
  Batch = 2
  MaxFaults = 2
  Compaction = FALSE
INVARIANTS TypeOK AckedIsStored UploadOrder RetryReturnsOriginal NudgeNotLost UploadsFindTheList
PROPERTY LogImplemented
CHECK_DEADLOCK FALSE
