SPECIFICATION FairSpec
CONSTANTS
    d1 = d1  d2 = d2  a = a  b = b
    NoMonitor = NoMonitor  FirstDevice = d1
    Devices <- MCDevices
    LateDevices <- MCLate
    Monitors <- MCMonitors
    Connectors <- MCConnectors
    Resolution <- MCResolution
    Serials <- MCSerials
    MAX_DISPLAY_COUNT = 2
    MaxFailures = 1
    MaxChanges = 2
CHECK_DEADLOCK FALSE
INVARIANTS TypeOK ScreenIsCurrent ShowsQueried
PROPERTIES CatchesUp
