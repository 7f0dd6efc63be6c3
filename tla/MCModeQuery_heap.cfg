SPECIFICATION FairSpec
CONSTANTS
    MaxCount = 2
    PropCount = 2
    EdidAt = 1
    MaxQueries = 2
    MaxEvents = 3
INVARIANTS TypeOK HeapAccounted 
PROPERTIES QueryReturns
CHECK_DEADLOCK FALSE
