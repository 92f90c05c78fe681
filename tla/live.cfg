SPECIFICATION FairSpec
CONSTANTS
    MaxRetries = 1
    Partitions = {0}
    Sessions = {s1, s2}
    Msgs = {m1}
    ChanCap = 1
    Guarantee = "Transactional"
    Ordering = "None"
    DLQEnabled = TRUE
    Idempotent = FALSE
    Faults = {"cancel"}
CHECK_DEADLOCK FALSE
PROPERTIES Settles CatchesUp
