CONSTANTS
    BootTime = 4
    Timeout = 8
    MaxLines = 3
SPECIFICATION FairSpec
INVARIANTS TypeOK NoStaleReply HandshakeRunsThrough
PROPERTIES OkMeansLoaded ProgrammerEnds ReadyDeviceIsProgrammed
