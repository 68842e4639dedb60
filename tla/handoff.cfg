SPECIFICATION FairSpec
CONSTANTS
    Nil = Nil
    Ids = {a, b, c}
    FreshIds <- MCFreshIds
    MaxChanges = 2
CHECK_DEADLOCK FALSE
INVARIANTS
    TypeOK
    BundleVerifies
    ParentsIncluded
    DropTold
    CitesExact
PROPERTIES
    BundleEnds
