SPECIFICATION Spec
CONSTANTS
    MaxTokens = 6
    MaxForms = 2
    ArenaCells = 2
INVARIANTS OutcomeMatches RoundTrip PreflightExact PreflightSuffices StringsScoped
CHECK_DEADLOCK FALSE
