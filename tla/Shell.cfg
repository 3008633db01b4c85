CONSTANTS
    MaxInputs = 3
    MaxQueue = 3
SPECIFICATION FairSpec
INVARIANTS TypeOK PendingIsAnnounced
PROPERTY Prompted
CHECK_DEADLOCK FALSE
