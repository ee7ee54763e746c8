\* Liveness, with a crash or a lease that ends under a live holder.
CONSTANTS
    ann = ann
    bob = bob
    cid = cid
    i1 = i1
    i2 = i2
    NoOne = NoOne
    Users = {ann, bob}
    Instances = {i1}
    Host <- SameHost
    Level <- SameLevel
    Slot <- OneSlot
    SameLevelGrace = 1
    GiveUp = 1
    NoShow = 1
    LeaseMayExpire = TRUE
    MaxCalls <- AnnAgain
    MaxFaults = 1
    Horizon = 1
    MaxTime = 2
SPECIFICATION FairSpec
 
PROPERTIES PendingIsResolved 
CHECK_DEADLOCK FALSE
