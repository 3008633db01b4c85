SPECIFICATION Spec
CONSTANTS
  r1 = r1
  r2 = r2
  MaxEdits = 4
  Remote <- MCRemote
  MaxFaults = 2
INVARIANTS TypeOK SavedIsQueued ItemsBehindDocument
PROPERTY SavedNeverShrinks
CHECK_DEADLOCK FALSE
