\* A lost job is run again.
CONSTANTS
    old = old
    k1 = k1
    k2 = k2
    NoKey = NoKey
    Requests = {1}
    Keys = {k1}
    QuestionOf <- OneQuestion
    CodeOf <- SameCode
    Legacy = {}
    Points = 3
    NegativePoints = 1
    NegativeCap = 2
    Workers = {1, 2}
    MaxAttempts = 2
    MaxStalledCount = 1
    MaxLosses = 1
    MaxCrashes = 0
SPECIFICATION Spec
INVARIANTS PointsAddedOnce
CHECK_DEADLOCK FALSE
