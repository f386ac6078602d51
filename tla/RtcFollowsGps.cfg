SPECIFICATION Spec
CONSTANTS
    Radix <- SmallRadix
    LastCount = 5
    Misreads <- NoMisreads
    MaxMissed = 0
    MaxFaults = 0
INVARIANT RtcFollowsGps
