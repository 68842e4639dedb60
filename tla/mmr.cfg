SPECIFICATION Spec
CONSTANTS
    Digests = {a, b}
    MaxMmrSize = 16
    MaxLeaves = 9
SYMMETRY Symmetry
CHECK_DEADLOCK FALSE
INVARIANTS
    TypeOK
    PositionsMatch
    InclusionExact
    ConsistencyExact
