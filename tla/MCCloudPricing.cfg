SPECIFICATION Spec
CONSTANTS
    Requests = {r1, r2}
    Bodies <- MCBodies
    Prices <- MCPrices
    MaxOutput = 2  DefaultOutput = 1
    TTL = 2  MaxTime = 3  MaxPublications = 1
    None = None
SYMMETRY RequestSymmetry
INVARIANTS TypeOK BooksCoverCharge
PROPERTIES RatesAreRecent
CHECK_DEADLOCK FALSE
