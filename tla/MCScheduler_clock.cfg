SPECIFICATION FairSpec
CONSTANTS
    Period <- MCPeriod
    PagePeriod = 2
    MaxWork = 1
    Cap = 11
INVARIANTS
    TypeOK
    Timely
PROPERTIES
    KeepsRefreshing
