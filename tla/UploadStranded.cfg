SPECIFICATION Spec
CONSTANTS
  alice = alice
  bob = bob
  Clients <- MCAlone
  Owner = alice
  MaxEdits = 2
  Batch = 2
  MaxFaults = 1
  Compaction = FALSE
INVARIANT DrainLeavesNothingInflight
CHECK_DEADLOCK FALSE
