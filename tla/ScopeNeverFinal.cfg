SPECIFICATION Spec
CONSTANTS
    Agent = {"main", "a"}
    MaxLine = 0
    MaxWrite = 2
    MaxRun = 2
    None = None
CHECK_DEADLOCK FALSE
PROPERTY ConfirmedScopeIsFinalized
