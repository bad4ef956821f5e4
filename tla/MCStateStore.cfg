SPECIFICATION FairSpec
CONSTANTS
    s1 = s1  s2 = s2  s3 = s3
    o1 = o1  o2 = o2  o3 = o3
    Stores = {s1}
    Ops = {o1, o2, o3}
    StoreOf <- OneStore
    MaxAttempts = 2
    SlowHolders = TRUE
    MaxFaults = 2
    NoLock = NoLock
INVARIANTS TypeOK FifoPerStore
PROPERTIES ImplementsAtomicStore EveryUpdateEnds
CHECK_DEADLOCK FALSE
