SPECIFICATION FairSpec
CONSTANTS
    Commands = {c1}  Dashboards = {d1}  Logouts = {l1}
    MaxFaults = 1
    None = None
INVARIANTS TypeOK 
PROPERTIES EveryCommandEnds
CHECK_DEADLOCK FALSE
