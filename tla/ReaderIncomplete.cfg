SPECIFICATION Spec
CONSTANTS
    MaxTokens = 6
    MaxForms = 1
    ArenaCells = 2
INVARIANTS NeverProcessFailure
CHECK_DEADLOCK FALSE
