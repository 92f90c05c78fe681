SPECIFICATION Spec
CONSTANTS
    MaxRetries = 1
    Partitions = {0}
    Sessions = {s1, s2}
    Msgs = {m1}
    ChanCap = 1
    Guarantee = "Transactional"
    Ordering = "PerKey"
    DLQEnabled = TRUE
    Idempotent = FALSE
    Faults = {"cancel", "revoke"}
SYMMETRY Symmetry
CHECK_DEADLOCK FALSE
INVARIANTS NoLoss  NoDeadlock
