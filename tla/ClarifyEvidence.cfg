SPECIFICATION MCSpec
CONSTANTS
    Nothing = Nothing
    c1 = c1
    p1 = p1
    p2 = p2
    g1 = g1
    g2 = g2
    Proposal = {p1, p2}
    Gap = {g1, g2}
    Resolves <- MCResolves
    Proc = {c1, c2}
    Tier = {"L1", "L2"}
    MaxTouch = 1
    MaxEvents = 7
    MaxDeaths = 1
    MaxEdits = 1
    MaxRevision = 2
CHECK_DEADLOCK FALSE
INVARIANT RecordsAreWhole
INVARIANT EvidenceIsEarned
INVARIANT SettledByReceipt
PROPERTY NothingIsOverwritten
PROPERTY ApplicationFinishes
