SPECIFICATION Spec
CONSTANTS
    s1 = s1  s2 = s2  s3 = s3
    o1 = o1  o2 = o2  o3 = o3
    Stores = {s1, s2, s3}
    Ops = {o1, o2, o3}
    StoreOf <- ThreeStores
    MaxAttempts = 2
    SlowHolders = FALSE
    MaxFaults = 1
    NoLock = NoLock
INVARIANTS NoLostUpdate
CHECK_DEADLOCK FALSE
