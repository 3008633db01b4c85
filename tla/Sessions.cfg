CONSTANTS
    Clients = {c1}
    Users = {alice}
    NoUser = NoUser
    MaxLogins = 2
    MaxFaults = 2
    DeviceUnlock = TRUE
SPECIFICATION FairSpec
INVARIANTS TypeOK CachedDeviceIsEnrolled RevokedDeviceLocked SessionEndsWithProcess
PROPERTY LoginEnds
CHECK_DEADLOCK FALSE
