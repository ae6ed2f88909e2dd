SPECIFICATION Spec
CONSTANTS
    Address = {a1, a2}
    Fault = {"load", "lookup", "bind", "wrap"}
    TokenSpace = 4
    MaxObjects = 3
    MaxRetains = 4
INVARIANTS OneRow BindingLive ClassNamesOwn PresentMeansBound
PROPERTIES RefreshedPlayer PreservedPlayer
CHECK_DEADLOCK FALSE
