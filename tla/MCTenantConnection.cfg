SPECIFICATION Spec
CONSTANTS
    Calls = {c1, c2, c3, c4, c5}
    MaxCuts = 1  MaxElsewhere = 1
    OtherKey = OtherKey  None = None
SYMMETRY CallSymmetry
INVARIANTS TypeOK FingerprintTellsKey ProvisionedKeyIsKept RefreshTokenIsKept
PROPERTIES OwnKeyIsAskedFor
CHECK_DEADLOCK FALSE
