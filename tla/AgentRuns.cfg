SPECIFICATION FairSpec
CONSTANTS
    u1 = u1
    u2 = u2
    w1 = w1
    w2 = w2
    s1 = s1
    NoUse = NoUse
    NoRun = NoRun
    Use = {u1, u2}
    Run = {w1, w2, s1}
    Research = {s1}
    Fragile = {u1}
    SessionOf <- OneSession
    TypeOf <- Types
    Copies = 1
    Reuse = FALSE
CHECK_DEADLOCK FALSE
INVARIANT StopNamesItsRun
INVARIANT TrustedMeansDone
PROPERTY TrustKept
PROPERTY WorkIsReceipted
