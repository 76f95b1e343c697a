SPECIFICATION QuestionsFairSpec
CONSTANTS
    p1 = p1
    p2 = p2
    Version = {1, 2}
    Draft <- MCDraft
    Frontier <- MCFrontier
    Choice = {"yes"}
    Process = {p1, p2}
    MaxEdit = 2
    MaxGiven = 2
    MaxLedger = 3
    None = None
CHECK_DEADLOCK FALSE
INVARIANT AnswersAreKept
INVARIANT NormalizedOnce
PROPERTY CrashWindowCloses
