SPECIFICATION Spec
CONSTANTS
    HourSeconds = 4
    LabelSteps <- MCOneSecond
    SacDate <- MCSacDate
    HeaderBlocks = 2
    Trace <- MCTrace
    MaxTime = 13
    MaxNpts = 20
    MaxJumps = 2
    MaxCrashes = 1
    MaxFaults = 0
PROPERTIES
    NothingIsErased
