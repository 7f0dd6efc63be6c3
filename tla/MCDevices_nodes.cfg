SPECIFICATION FairSpec
CONSTANTS
    CardCount = 4
    DisplayCounts <- MCCounts
    Bare <- MCBare
    Foreign <- MCForeign
    Virtual = {v}
    Domain <- MCDomains
    Slot <- MCSlots
    ByteRange = 2
    MaxCards = 3
    MaxOpen = 5
    None = None
    MaxEvents = 2
INVARIANTS TypeOK BoundToOwn DescriptorsOwned FreeSafe
PROPERTIES RetryLoads Binds
CHECK_DEADLOCK FALSE
