SPECIFICATION FairSpec
CONSTANTS
    Caller = {h1}
    Fault = {}
    MaxImages = 2
PROPERTIES LoadedIsServed
CHECK_DEADLOCK FALSE
