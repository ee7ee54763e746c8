\* A sync that read turn 1 and writes in turn 2.
CONSTANTS
    First = First
    Second = Second
    NoOne = NoOne
    c1 = c1
    c2 = c2
    Calls = {c1, c2}
    Timer = Timer
    Starter = Starter
    MaxEvents = 2
    MaxClock = 2
    MaxCrashes = 0
SPECIFICATION Spec
PROPERTIES OnlyCandidateEdits
CHECK_DEADLOCK FALSE
