SPECIFICATION FairSpec
CONSTANTS
    Client = {c1}
    None = None
    Byte <- MCByte
    Source = {}
    Line <- BlankLines
    MaxRequestBytes = 2
    MaxPendingRequests = 2
    MaxSubmissions = 4
    MaxLines = 2
    MaxStarts = 1
    SendWindow = 1
PROPERTIES EveryClientServed
CHECK_DEADLOCK FALSE
