SPECIFICATION SpecStatus
CONSTANTS
    GpsLimit = 2
    SyncLimit = 1
    PpsCount = 2
    SetCount = 1
    SyncCount = 2
    MaxSilence = 5
    Files = {"GPS", "RTC"}
INVARIANTS
    SilenceIsReported
    ToldIsWritten
    FilesSayHowItWent
    SilentEndIsComplete
    SamplingSparesUploads
PROPERTIES
    StartupEnds
    UploaderSettles
