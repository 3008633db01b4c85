CONSTANTS
    MaxLen = 2
    MaxKeys = 6
    LateKeys = 2
    MaxEarlier = 1
    Forms = {"register", "login", "unlock", "list", "share", "todo", "members", "prompt"}
    MonthEnds <- MCMonthEnds
SPECIFICATION FormsSpec
INVARIANTS FormsTypeOK OneCapture
PROPERTY ValuesSurvive
CHECK_DEADLOCK FALSE
