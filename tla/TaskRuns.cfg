SPECIFICATION Spec
CONSTANTS
    r1 = r1
    r2 = r2
    r3 = r3
    r4 = r4
    NoRunner = NoRunner
    Runner = {r1, r2, r3, r4}
    Mortal = {r1}
    Phases = 2
CHECK_DEADLOCK FALSE
SYMMETRY Alike
INVARIANT CommandsRunOnce
INVARIANT ReceiptIsTrue
PROPERTY RunsArePhaseLog
