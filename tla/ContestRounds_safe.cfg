CONSTANTS
    c1 = c1
    c2 = c2
    Calls = {c1, c2}
    NoCall = NoCall
    LastOrder = 1
    Points = 2
    Penalty = 1
    CodePoints = 1
    MaxCalls = 4
    MaxPosted = 1
    MaxFaults = 1
SPECIFICATION FairSpec
INVARIANTS TypeOK AnsweredInOrder CodingAfterQuestions TotalIsTheRounds
PROPERTIES AnswerIsFinal CandidateGoesOn
CHECK_DEADLOCK FALSE
