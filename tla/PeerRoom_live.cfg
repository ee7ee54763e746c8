\* From the waiting room, with disconnects, an end and a crash.
CONSTANTS
    ann = ann
    bob = bob
    NoOne = NoOne
    Users = {ann, bob}
    Here = {ann}
    Origins = {"lobby"}
    MaxReady = 0
    MaxSockets = 1
    MaxEnds = 1
    MaxCrashes = 1
SPECIFICATION FairSpec
PROPERTIES  ActiveHasRuntime InterviewEnds
CHECK_DEADLOCK FALSE
