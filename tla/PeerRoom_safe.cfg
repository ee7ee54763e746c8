\* One peer comes later: ready presses and a crash, from an invite.
CONSTANTS
    ann = ann
    bob = bob
    NoOne = NoOne
    Users = {ann, bob}
    Here = {ann}
    Origins = {"invite"}
    MaxReady = 1
    MaxSockets = 2
    MaxEnds = 0
    MaxCrashes = 1
SPECIFICATION Spec
INVARIANTS TypeOK 
CHECK_DEADLOCK FALSE
