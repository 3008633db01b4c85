SPECIFICATION FairSpec
CONSTANTS
  alice = alice
  bob = bob
  Clients <- MCAlone
  Owner = alice
  MaxEdits = 3
  Batch = 2
  MaxFaults = 2
  Compaction = TRUE
PROPERTIES Uploaded RetriedByNextPush
CHECK_DEADLOCK FALSE
