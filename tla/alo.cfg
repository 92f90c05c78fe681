SPECIFICATION Spec
CONSTANTS
    MaxRetries = 1
    Partitions = {0}
    Sessions = {s1, s2}
    Msgs = {m1}
    ChanCap = 1
    Guarantee = "AtLeastOnce"
    Ordering = "None"
    DLQEnabled = TRUE
    Idempotent = FALSE
    Faults = {"cancel", "fence"}
SYMMETRY Symmetry
CHECK_DEADLOCK FALSE
INVARIANTS TypeOK HeadersTruthful DuplicatesBounded NoAttemptSkipped
PROPERTIES KeepsContract OffsetsNeverRewind
