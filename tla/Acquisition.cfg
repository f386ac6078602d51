SPECIFICATION FairSpec
CONSTANTS
    GpsModes <- MCAllModes
    RmcMayBeLost = TRUE
    RtcMayFail = TRUE
    RtcErrors <- MCRtcErrors
    LoopMayLag = TRUE
    UartCapacity = 2
    MaxAge = 3
    MaxCalm = 2
INVARIANT NoticeMatchesBlock
PROPERTIES
    NoticesAlternate
    BlocksAreFresh
    LabelsAdvance
    BlocksKeepComing
    GpsComesBack
