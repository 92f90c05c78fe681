SPECIFICATION FairSpec
CONSTANTS
    NParts = 2
    MaxRecords = 3
    Nobody = Nobody
INVARIANT NoLoss
