SPECIFICATION Spec
CONSTANTS
    DeviceCount = 2
    TabCount = 3
    StatTab = 0
    SensorMayFail = TRUE
    DriverlessTabs <- MCDriverless
    RefreshTabs <- MCRefresh
    ClearTabs <- MCClear
    FallibleTabs <- MCFallible
    Sizes <- MCSizes
    Cramped <- MCSmall
    NoHelp <- MCSmall
CHECK_DEADLOCK FALSE
INVARIANTS
    AnyKeyLeavesHelp
