SPECIFICATION IntegrationFairSpec
CONSTANTS
    t1 = t1
    t2 = t2
    x1 = x1
    x2 = x2
    x3 = x3
    Task = {t1, t2}
    Path = {x1, x2, x3}
    Changed <- MCChanged
    Created = {x1}
    Deletes = {x3}
    Version = {1, 2}
    MaxExecutions = 3
    MaxEdit = 1
    MaxFail = 1
    MaxDeath = 1
    NoJob = NoJob
    NoProof = NoProof
CHECK_DEADLOCK FALSE
INVARIANT IntegrationIsRecoverable
PROPERTY AllOrNothing
PROPERTY SealIsExact
PROPERTY LeavesImplement
