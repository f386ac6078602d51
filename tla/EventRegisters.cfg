SPECIFICATION SpecR
CONSTANTS
    freq = 2
    ltaSeconds = 2
    preSeconds = 2
    postSeconds = 1
    minimunDurationSeconds = 1
    MAX_LENGTH_EVENT = 5
    DaySeconds = 6
    LabelSteps <- MCOneSecond
    Skews <- MCNoSkew
    MaxBlocks = 12
INVARIANTS
    CountersMatch
    WindowIsNewest
    EventHasOneGap
    RecordingIsCurrent
    QuietRegisterIsNewest
    QuietFilesJoin
PROPERTIES
    FileNamesDiffer
    SamplesDecide
