SPECIFICATION FairSpec
CONSTANTS
    Caller = {h1, h2}
    Fault = {"thread", "pin", "event", "session", "record", "server"}
    MaxImages = 3
INVARIANTS BInv CodeMapped TrueMeansStopped EarlyStopNoSession NoLostWakeup
PROPERTIES ServerBeforeSession StopFinishes
CHECK_DEADLOCK FALSE
