CONSTANTS
    Lists = {"A", "B"}
    Items = {"a1", "a2", "b1"}
    ListOf <- MCListOf
    Rank <- MCRank
    Place <- MCPlace
    Names = {1, 2}
    Folded <- MCFolded
    Looks <- MCLooks
    Today = 2
    Undated = 9
    NameOf <- MCNameOf
    LookOf <- MCLookOf
    Starts <- MCStarts
    Screens <- MCScreens
    MaxKeys = 2
    MaxRemote = 1
SPECIFICATION Spec
INVARIANTS TypeOK QuietIsCurrent
CHECK_DEADLOCK FALSE
