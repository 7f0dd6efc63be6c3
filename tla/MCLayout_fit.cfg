SPECIFICATION LayoutSpec
CONSTANTS
    HALF = 1024
    MaxSize = 160
INVARIANTS WindowsFit ContentsFit
