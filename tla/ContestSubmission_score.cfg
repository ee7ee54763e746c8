\* Two submissions and a legacy row of one question; a lost job fails.
CONSTANTS
    old = old
    k1 = k1
    k2 = k2
    NoKey = NoKey
    Requests = {1, 2}
    Keys = {old, k1, k2}
    QuestionOf <- OneQuestion
    CodeOf <- SameCode
    Legacy = {old}
    Points = 3
    NegativePoints = 1
    NegativeCap = 2
    Workers = {1, 2}
    MaxAttempts = 2
    MaxStalledCount = 0
    MaxLosses = 1
    MaxCrashes = 1
SPECIFICATION FairSpec
INVARIANTS TypeOK TotalIsTheAwards
PROPERTIES PaidOnce QueuedIsJudged
CHECK_DEADLOCK FALSE
