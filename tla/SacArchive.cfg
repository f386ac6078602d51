SPECIFICATION Spec
CONSTANTS
    HourSeconds = 3
    LabelSteps <- MCAnyStep
    SacDate <- MCSacDate
    HeaderBlocks = 2
    Trace <- MCTrace
    MaxTime = 6
    MaxNpts = 20
    MaxJumps = 1
    MaxCrashes = 1
    MaxFaults = 1
INVARIANTS
    HeaderAtMostOneAhead
    HeaderDatesFirstBlock
    AxesAgree
    HourIsContinuous
    FullHoursAreUploaded
    ExtremaCoverTrace
PROPERTIES
    HeaderKeepsBlocks
    ImplementsArchive
