SPECIFICATION SyncSpec
CONSTANTS
    NoRecord = NoRecord
    Server = {s1}
    First = s1
    Tasks = {t1}
    MaxTime = 2
    MaxActions = 3
    MaxForeign = 1
INVARIANT DeletionHolds
CHECK_DEADLOCK FALSE
