CONSTANTS
    Dirs = 2
    MaxAttempts = 2
    MaxKeys = 3
    MaxExits = 3
    MaxFaults = 2
SPECIFICATION FairSpec
INVARIANTS TypeOK KeyOpensDatabase
PROPERTY OpensAgain
CHECK_DEADLOCK FALSE
