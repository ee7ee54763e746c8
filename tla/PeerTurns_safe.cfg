\* Two user events, the timer, the activation and a crash.
CONSTANTS
    First = First
    Second = Second
    NoOne = NoOne
    c1 = c1
    c2 = c2
    Calls = {c1, c2}
    Timer = Timer
    Starter = Starter
    MaxEvents = 2
    MaxClock = 2
    MaxCrashes = 1
SPECIFICATION FairSpec
INVARIANTS TypeOK RuntimeIsCoherent ReportsAreThePeers
PROPERTIES InterviewEnds
CHECK_DEADLOCK FALSE
