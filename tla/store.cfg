SPECIFICATION Spec
CONSTANTS
    MaxRetries = 1
    Partitions = {0}
    Sessions = {s1, s2}
    Msgs = {m1, m2, m3}
    ChanCap = 1
    Guarantee = "AtLeastOnce"
    Ordering = "PerPartition"
    DLQEnabled = TRUE
    Idempotent = TRUE
    Faults = {"cancel"}
SYMMETRY Symmetry
CHECK_DEADLOCK FALSE
INVARIANTS  OneHandlerAtATime HandledOnce Backpressure
PROPERTY StaysCompleted
