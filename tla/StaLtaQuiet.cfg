SPECIFICATION SpecWindows
CONSTANTS
    freq = 10
    lengthSTA = 7
    lengthLTA = 70
    thOn = 3
    Samples <- MCConstantSignal
    MaxBlocks = 9
INVARIANT TriggersOnWindows
