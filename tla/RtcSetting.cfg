SPECIFICATION Spec
CONSTANTS
    Radix <- SmallRadix
    LastCount = 5
    Misreads <- SomeMisreads
    MaxMissed = 1
    MaxFaults = 1
INVARIANT SettingIsExactOrCarried
