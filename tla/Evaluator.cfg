SPECIFICATION FairSpec
CONSTANTS
    Form <- MCForm
    Name = {"quote", "cond", "car", "cdr", "f", "g", "player", "x"}
    Primitive = {"f"}
    Bindable = {"player"}
    Transient = {"str"}
    Persistent = {"handle", "rational"}
    MaxEvals = 2
    MaxSlots = 2
INVARIANTS WordsKeepMeaning EvalMatchesMeaning
PROPERTIES EvalReturns
CHECK_DEADLOCK FALSE
