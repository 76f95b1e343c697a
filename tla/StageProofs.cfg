SPECIFICATION Spec
CONSTANTS
    a = a
    b = b
    s1 = s1
    s2 = s2
    Version = {1, 2}
    Agent = {a, b}
    Sealer = {s1, s2}
    Edited = {"design", "cases"}
    Careless = {}
    MaxRun = 6
    MaxTries = 2
    MaxPending = 2
    MaxEdit = 1
    MaxPublish = 2
    NoRun = NoRun
    NoResult = NoResult
    NoAgent = NoAgent
    NoProof = NoProof
CHECK_DEADLOCK FALSE
SYMMETRY Sealers
CONSTRAINT Explored
INVARIANT ProofChainHolds
INVARIANT AdvanceIsNotInVain
PROPERTY ProofsAreCurrent
