SPECIFICATION FairSpec
CONSTANTS
    Subs = {s1, s2}
    NParts = 1
    ChanCap = 1
    MaxRecords = 1
    AutoCreate = TRUE
    DriverEndsPolls = TRUE
CHECK_DEADLOCK FALSE
INVARIANTS TypeOK NoLostWakeup NoWorkerOutlivesRun CrashNeedsOverlap WaitsAnswered
PROPERTIES CloseEndsRuns SeesRecords
