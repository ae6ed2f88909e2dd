SPECIFICATION Spec
CONSTANTS
    Client = {c1, c2}
    None = None
    Byte <- MCByte
    Source = {}
    Line <- AnyLines
    MaxRequestBytes = 2
    MaxPendingRequests = 2
    MaxSubmissions = 4
    MaxLines = 2
    MaxStarts = 2
    SendWindow = 1
INVARIANTS TypeOK WorkerWithinLifetime QuietWhenStopped OneOutstanding CleanClientFramed
PROPERTIES PromiseSetOnce
CHECK_DEADLOCK FALSE
