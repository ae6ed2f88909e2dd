SPECIFICATION Spec
CONSTANTS
    Payloads = 8
    Registry <- MCRegistry
    Digits <- MCDigits
    Name = {"quote", "car", "f", "32"}
    Registrable = {"f", "quote"}
    Bindable = {"f"}
    BoundWord <- MCBoundWord
    Token = {"row"}
    Fraction <- MCFraction
    Text <- MCText
    MaxSlots = 2
INVARIANTS SymbolsKeepNames UnwrapSound AnswersMeanText
PROPERTIES BuildExact
CHECK_DEADLOCK FALSE
