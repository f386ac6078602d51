SPECIFICATION Spec
CONSTANTS
    MAX_SPS = 8
    MaxFaults = 2
    LastBlock = 3
    freq = 4
    lengthSTA = 3
    lengthLTA = 8
    thOn = 3
    Samples = {0, 1}
    MaxBlocks = 3
    Watched = 2
    Impulses <- MCImpulses
INVARIANTS
    FaultsSpoilFewSamples
    WindowErrorIsFixed
PROPERTY SamplingGoesOn
