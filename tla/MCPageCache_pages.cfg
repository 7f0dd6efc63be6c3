SPECIFICATION Spec
CONSTANTS
    d1 = d1  d2 = d2  None = None
    Devices <- MCDevices
    MaxFailures = 1
    IpTypes = 2  FwTypes = 2
INVARIANTS TypeOK SoundPages CleanTruthful
PROPERTY TagAfterData
CHECK_DEADLOCK FALSE
