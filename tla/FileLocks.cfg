SPECIFICATION MCSpec
CONSTANTS
    a = a
    b = b
    c = c
    d = d
    here = here
    there = there
    Proc = {a, b, c, d}
    Host <- TwoHosts
    Fallible = {a, b}
    GateKind = "git"
    Tokens = 2
    Tries = 2
    NoOwner = NoOwner
    EmptyDir = EmptyDir
INVARIANT OneHolder
PROPERTY LiveOwnersKept
PROPERTY AbstractWithOneDeath
PROPERTY DeadOwnerRecovered
