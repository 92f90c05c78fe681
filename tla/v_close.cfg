SPECIFICATION FairSpec
CONSTANTS
    Subs = {s1, s2}
    NParts = 1
    ChanCap = 1
    MaxRecords = 0
    AutoCreate = FALSE
    DriverEndsPolls = FALSE
CHECK_DEADLOCK FALSE
PROPERTY CloseEndsRuns
