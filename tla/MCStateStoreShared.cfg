SPECIFICATION Spec
CONSTANTS
    s1 = s1  s2 = s2  s3 = s3
    o1 = o1  o2 = o2  o3 = o3
    Stores = {s1, s2}
    Ops = {o1, o2, o3}
    StoreOf <- TwoStores
    MaxAttempts = 2
    SlowHolders = FALSE
    MaxFaults = 0
    NoLock = NoLock
INVARIANTS MutualExclusion
CHECK_DEADLOCK FALSE
