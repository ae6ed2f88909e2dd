SPECIFICATION FairSpec
CONSTANTS
    Client = {c1}
    None = None
    Byte <- MCByte
    Source = {}
    Line <- AnyLines
    MaxRequestBytes = 2
    MaxPendingRequests = 2
    MaxSubmissions = 4
    MaxLines = 2
    MaxStarts = 2
    SendWindow = 1
PROPERTIES StopCompletes CleanClientServed
CHECK_DEADLOCK FALSE
