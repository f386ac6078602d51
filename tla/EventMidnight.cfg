SPECIFICATION Spec
CONSTANTS
    freq = 2
    ltaSeconds = 2
    preSeconds = 2
    postSeconds = 1
    minimunDurationSeconds = 2
    MAX_LENGTH_EVENT = 10
    DaySeconds = 9
    LabelSteps <- MCOneSecond
    Skews <- MCNoSkew
PROPERTIES
    LongEventsAreKept
