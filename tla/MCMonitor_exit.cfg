SPECIFICATION FairSpec
CONSTANTS
    DeviceCount = 2
    TabCount = 3
    StatTab = 0
    SensorMayFail = TRUE
    DriverlessTabs <- MCDriverless
    RefreshTabs <- MCRefresh
    ClearTabs <- MCClear
    FallibleTabs <- MCFallible
    Sizes <- MCLarge
    Cramped <- MCNone
    NoHelp <- MCNone
CHECK_DEADLOCK FALSE
PROPERTIES
    ExitHonoured
