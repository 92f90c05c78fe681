SPECIFICATION FairSpec
CONSTANTS
    NParts = 2
    MaxRecords = 3
    Nobody = Nobody
INVARIANTS TypeOK OnlyFirstLost RoutedVisible NoDoubleUnlock 
PROPERTY TxnEnds
