SPECIFICATION FairSpec
CONSTANTS
    c1 = c1
    c2 = c2
    t1 = t1
    t2 = t2
    NoOne = NoOne
    Command = {c1, c2}
    Tool = {t1, t2}
    Mortal = {c1, t1}
    TTL = 1
    MaxStage = 1
CHECK_DEADLOCK FALSE
INVARIANT TransactionExcludesLeases
PROPERTY StageFrozenWhileLeased
PROPERTY AdvanceIsFresh
PROPERTY AdvanceCompletes
