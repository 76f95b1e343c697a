SPECIFICATION FairSpec
CONSTANTS
    TC = {"TC1", "TC2"}
    Critical = {"TC1"}
    NoCommand = NoCommand
    NoFinalizer = NoFinalizer
    NoResult = NoResult
    MaxRuns = 3
    MaxTrouble = 2
CHECK_DEADLOCK FALSE
INVARIANT RunsAreWhole
PROPERTY SealIsEarned
PROPERTY VerifyFinishes
