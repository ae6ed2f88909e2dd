SPECIFICATION MCSpec
CONSTANTS
    Byte <- MCByte
    Source <- MCSource
    MaxRequestBytes = 1
    MaxPendingRequests = 2
    MaxSubmissions = 3
    MaxHistoryEntries = 2
    MaxTranscriptEntries = 2
    MaxPopups = 2
    FadeFrames = 2
INVARIANTS QInv RecordsFaithful OverlayInStep
PROPERTIES ImplementsService NoTextLost AcceptedAreAnswered NeverPutOff
CHECK_DEADLOCK FALSE
