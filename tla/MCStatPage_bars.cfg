SPECIFICATION Spec
CONSTANTS
    Changes <- MCChanges
    Word = 65536
    MaxTime = 3
    MaxFailures = 2
INVARIANTS TypeOK OfOneUpdate LoadShown DividesSafely
CHECK_DEADLOCK FALSE
