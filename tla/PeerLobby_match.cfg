\* Three waiters, two levels, two instances; one of them presses twice.
CONSTANTS
    ann = ann
    bob = bob
    cid = cid
    i1 = i1
    i2 = i2
    NoOne = NoOne
    Users = {ann, bob, cid}
    Instances = {i1, i2}
    Host <- MixedHosts
    Level <- MixedLevels
    Slot <- TwoSlots
    SameLevelGrace = 1
    GiveUp = 2
    NoShow = 2
    LeaseMayExpire = FALSE
    MaxCalls <- AnnAgain
    MaxFaults = 0
    Horizon = 2
    MaxTime = 4
SPECIFICATION Spec
INVARIANTS TypeOK NoDoubleMatching  NoPairLeftBehind LongestWaitFirst 
  
CHECK_DEADLOCK FALSE
