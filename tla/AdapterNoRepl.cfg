SPECIFICATION Spec
CONSTANTS
    Address = {a1, a2}
    Fault = {"repl"}
    TokenSpace = 4
    MaxObjects = 1
    MaxRetains = 1
INVARIANTS TickHasQueue
CHECK_DEADLOCK FALSE
