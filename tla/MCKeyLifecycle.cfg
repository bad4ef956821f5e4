SPECIFICATION Spec
CONSTANTS
    Commands = {k1, k2, k3}
    MaxFaults = 1  MaxElsewhere = 1
    Remainder = 1
    OwnKey = OwnKey  OtherKey = OtherKey  Refusal = Refusal  None = None
SYMMETRY CommandSymmetry
INVARIANTS TypeOK LedgerKnowsKeys
PROPERTIES CreatedKeyIsKept
CHECK_DEADLOCK FALSE
