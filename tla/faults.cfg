SPECIFICATION Spec
CONSTANTS
    MaxRetries = 1
    Partitions = {0, 1}
    Sessions = {s1}
    Msgs = {m1, m2}
    ChanCap = 1
    Guarantee = "AtLeastOnce"
    Ordering = "None"
    DLQEnabled = TRUE
    Idempotent = TRUE
    Faults = {"revoke", "fence", "expire", "store"}
SYMMETRY Symmetry
CHECK_DEADLOCK FALSE
INVARIANTS NoSilentLoss ProgressCovered
